---- MODULE Spec2Model ----
(***************************************************************************)
(* PaperMind retrieval pipeline: the vector index lifecycle (build,        *)
(* search) of backend/app.py and of backend/utils/embedding_service.py,    *)
(* the per-query coordinator recommend_papers of backend/app.py, the       *)
(* multi-source aggregation (app.py fetch_all_papers, PaperFetcher), the   *)
(* source fetchers and the embedding cache.                                *)
(*                                                                         *)
(* A paper is identified by a number; its text is PaperText(p), the text   *)
(* of a query is QueryText(q); texts and titles are sequences of           *)
(* characters.  Vectors have two integer coordinates.                      *)
(* Python list indices are 0-based; sequences here are 1-based, and the    *)
(* indices returned by the FAISS search keep their Python value.           *)
(***************************************************************************)
EXTENDS Integers, Sequences, FiniteSets, TLC

\* ------------------------------------------------------------------ bounds
NumPapers == 3      \* distinct papers the providers can return
MaxLen == 3         \* longest paper list handed to a build
NumQueries == 2     \* distinct query texts
MaxK == 4           \* largest top_k / max_results of a request
MaxFetch == 2       \* longest list one provider returns
MaxExplFail == 2    \* result positions whose explanation call may fail
ThreadPapers == 2   \* papers used when two threads share a service
ThreadMaxK == 2     \* largest k of a search racing with a build
TitleLen == 2       \* characters of a catalogue title after its run of "x"
MaxSources == 2     \* longest list of source tags handed to an aggregation

MaxItems == 2       \* most items in one provider response
MaxTextLen == 2     \* characters of a short text handed to get_embedding
MaxEmbedCalls == 2  \* get_embedding calls in a row that are followed
MaxWs == 1          \* whitespace characters around an abstract
MaxLookups == 1     \* get_embedding calls in a row by the caller of a saved service
MaxRetries == 3     \* largest max_retries handed to explain_relevance

\* Length of the title prefix that is compared (app.py line 249).
KeyLen == 50
\* Abstract lengths the fetchers compare with: len > 50 at app.py line 163,
\* len < 100 at data_sources.py lines 38 and 124.
AppMinAbstract == 50
FetcherMinAbstract == 100
\* Longest text handed to the backend: [:512] at app.py line 98, [:8000] at
\* embedding_service.py lines 34-35.
AppMaxText == 512
SvcMaxText == 8000

\* Python None in the place of an index, and a faiss.IndexFlatL2 holding vecs.
None == [isNone |-> TRUE, vecs |-> <<>>]
IndexFlatL2(vecs) == [isNone |-> FALSE, vecs |-> vecs]
PaperIds == 1..NumPapers
QueryIds == 0..(NumQueries - 1)
Ks == 1..MaxK

\* Sequences over S, of length at most n.
RECURSIVE ListsOver(_, _)
ListsOver(S, n) ==
    IF n = 0 THEN {<<>>}
    ELSE LET shorter == ListsOver(S, n - 1)
         IN  shorter \cup {Append(l, x) : l \in {m \in shorter : Len(m) = n - 1},
                                          x \in S}

Range(s) == {s[i] : i \in DOMAIN s}
PaperLists == {l \in ListsOver(PaperIds, MaxLen) : Cardinality(Range(l)) = Len(l)}
\* The provider a paper comes from (its "source" field), and what one
\* provider can return for a request.
SourceOf(p) == IF p % 2 = 1 THEN "semantic_scholar" ELSE "arxiv"
FetchLists(source) ==
    {l \in PaperLists : Len(l) <= MaxFetch /\ \A i \in DOMAIN l : SourceOf(l[i]) = source}
\* A paper of Semantic Scholar whose "title" is null: fetch_semantic_scholar_papers
\* of app.py returns it with the title None (line 163).
NullTitlePaper == -1
\* What fetch_semantic_scholar_papers of app.py can return: the lists above,
\* and lists that hold the paper without a title.
AppS2Lists ==
    FetchLists("semantic_scholar") \cup {<<NullTitlePaper>>, <<1, NullTitlePaper>>}

\* ------------------------------------------------- texts and the backend
\* A text is a sequence of characters (a word or a number counts as one).
\* The text app.py makes of a paper is its title, a newline and its abstract
\* (line 276); the text EmbeddingService makes of it is "Title: ", the title,
\* two newlines, "Abstract: " and the abstract (line 66).
PaperText(p) == <<"paper", ToString(p), "\n", "abstract">>
SvcPaperText(p) ==
    <<"T", "i", "t", "l", "e", ":", " ", "paper", ToString(p), "\n", "\n",
      "A", "b", "s", "t", "r", "a", "c", "t", ":", " ", "abstract">>
QueryText(q) == <<"query", ToString(q)>>
NumberOf(c) == CHOOSE n \in 0..(NumPapers + NumQueries) : ToString(n) = c

\* The embedding backend: a deterministic function of the text it is given.
Encode(text) ==
    IF text = <<>> THEN <<0, 0>>
    ELSE IF \E i \in 1..(Len(text) - 1) : text[i] = "paper"
    THEN LET at == CHOOSE i \in 1..(Len(text) - 1) : text[i] = "paper"
         IN  <<NumberOf(text[at + 1]) % 3, NumberOf(text[at + 1]) \div 3>>
    ELSE IF text[1] = "query" /\ Len(text) >= 2 THEN <<NumberOf(text[2]), 0>>
    ELSE <<Len(text), Cardinality({i \in DOMAIN text : text[i] = "b"})>>

Min(a, b) == IF a <= b THEN a ELSE b
Whitespace == {" ", "\t", "\n"}
\* text.replace('\n', ' ')
ReplaceNewlines(text) ==
    [i \in 1..Len(text) |-> IF text[i] = "\n" THEN " " ELSE text[i]]
\* str.strip()
Strip(text) ==
    LET n == Len(text)
        kept(i) == text[i] \notin Whitespace
        first == CHOOSE i \in 1..(n + 1) :
                     (i = n + 1 \/ kept(i)) /\ \A j \in 1..(i - 1) : ~kept(j)
        last == CHOOSE i \in 0..n :
                    (i = 0 \/ kept(i)) /\ \A j \in (i + 1)..n : ~kept(j)
    IN  SubSeq(text, first, last)
\* text.replace('\n', ' ').strip()[:max]
CleanText(text, max) ==
    LET stripped == Strip(ReplaceNewlines(text))
    IN  SubSeq(stripped, 1, Min(max, Len(stripped)))

\* Squared Euclidean distance (faiss.IndexFlatL2).
L2(a, b) == (a[1] - b[1]) * (a[1] - b[1]) + (a[2] - b[2]) * (a[2] - b[2])

\* Distance reported by FAISS for a missing neighbour (float32 max).
FaissInf == 1000000

\* ------------------------------------------------------------- variables
VARIABLES
    prog,             \* the program this run exercises: "app" (backend/app.py)
                      \* or "svc" (an EmbeddingService instance)
    faiss_index,      \* app.py global: None or an IndexFlatL2
    paper_metadata,   \* app.py global: list of papers
    index,            \* EmbeddingService.index
    metadata,         \* EmbeddingService.metadata
    embedding_cache,  \* EmbeddingService.embedding_cache: text -> vector
    last,             \* the most recent build or search call made since the
                      \* current request began: its arguments and what it gave
    rc,               \* recommend_papers: the request being handled
    bt,               \* a thread inside EmbeddingService.build_index
    st,               \* a thread inside EmbeddingService.search
    ag,               \* the aggregation or source-fetch call under study:
                      \* its arguments, the fetches it issued, what it gave
    em,               \* the get_embedding calls made so far: which texts
                      \* have been embedded, and what the latest call did
    model,            \* EmbeddingService.model
    disk,             \* the files filepath.index, filepath.metadata and
                      \* filepath.cache that save_index writes
    up,               \* upload_document: the upload being handled
    xp                \* the explain_relevance call under study

vars == <<prog, faiss_index, paper_metadata, index, metadata, embedding_cache,
          last, rc, bt, st, ag, em, model, disk, up, xp>>

\* The state outside the request pipeline: the service's model, the saved
\* files, the upload handler and the explanation call.
aside == <<model, disk, up, xp>>

\* The embedding model a service is constructed with when none is named
\* (embedding_service.py line 16), and another one.
DefaultModel == "text-embedding-3-small"
OtherModel == "text-embedding-ada-002"
\* No file has been written; a file that holds a complete dump of content; a
\* file that open(path, 'wb') has cut to length 0 and whose dump did not
\* complete, which cannot be read back.
NoFile == [exists |-> FALSE, readable |-> FALSE, content |-> <<>>]
File(content) == [exists |-> TRUE, readable |-> TRUE, content |-> content]
CutFile == [exists |-> TRUE, readable |-> FALSE, content |-> <<>>]
NoDisk == [index |-> NoFile, metadata |-> NoFile, cache |-> NoFile]
\* upload_document.  reading: how many uploads wait at await file.read();
\* overtaken: how many of them have waited while another request was
\* answered with results; waited: whether the upload being handled had been
\* overtaken; found: the papers such an upload found indexed at the moment
\* it was resumed.
NoUpload == [state |-> "EMPTY", supported |-> TRUE, inner |-> "none",
             response |-> "none", results |-> <<>>, reading |-> 0,
             overtaken |-> 0, waited |-> FALSE, found |-> {}]
\* What a call gives back: a str of the given characters, or Python None.
Str(chars) == [isNone |-> FALSE, text |-> chars]
NullValue == [isNone |-> TRUE, text |-> <<>>]
NoPaper == [id |-> 0, title |-> "ok", abstract |-> "ok", authors |-> "ok"]
NoExpl == [op |-> "none", query |-> 0, paper |-> NoPaper, max_retries |-> 0,
           fails |-> {}, attempts |-> 0, raised |-> FALSE, value |-> Str(<<>>)]
AsideInit == model = DefaultModel /\ disk = NoDisk /\ up = NoUpload /\ xp = NoExpl

\* get_embedding of app.py (lines 94-105): no cache is consulted; the text is
\* cleaned and handed to the backend.
AppGetEmbedding(text, backendFails) ==
    IF backendFails THEN [ok |-> FALSE, value |-> <<>>, calls |-> 1]
    ELSE [ok |-> TRUE, value |-> Encode(CleanText(text, AppMaxText)), calls |-> 1]

\* What the backend gives for a cleaned text under model m (embedding_service.py line 39 hands
\* self.model to the backend): two models give different vectors.
BackendEmbedding(m, cleaned_text) ==
    LET v == Encode(cleaned_text)
    IN  IF m = DefaultModel THEN v ELSE <<v[2], v[1] + 1>>

\* What the backend of the running program gives for a text: the local model
\* of app.py, or the model of the service.
EmbeddingOf(text) ==
    IF prog = "app" THEN Encode(CleanText(text, AppMaxText))
    ELSE BackendEmbedding(model, CleanText(text, SvcMaxText))

\* The text the running program makes of a paper.
TextOfPaper(p) == IF prog = "app" THEN PaperText(p) ELSE SvcPaperText(p)

NoCall == [op |-> "none", papers |-> <<>>, failed |-> {}, query |-> 0, k |-> 0,
           outcome |-> "none", results |-> <<>>, calls |-> 0]

EmptyCache == [t \in {} |-> <<>>]
CachePut(cache, text, v) ==
    [t \in (DOMAIN cache) \cup {text} |-> IF t = text THEN v ELSE cache[t]]

\* ------------------------------------------------ app.py: build_faiss_index
\* Lines 273-286: the loop over the papers.  fail is the set of positions whose
\* get_embedding call raises; acc collects embeddings, paper_metadata (which
\* line 269 has already rebound to a fresh list), the failed positions and
\* the number of backend calls.
RECURSIVE AppBuildLoop(_, _, _, _)
AppBuildLoop(papers, fail, i, acc) ==
    IF i > Len(papers) THEN acc
    ELSE IF i \in fail
         THEN AppBuildLoop(papers, fail, i + 1,
                  [acc EXCEPT !.failed = @ \cup {i}, !.calls = @ + 1])
         ELSE AppBuildLoop(papers, fail, i + 1,
                  [acc EXCEPT !.embeddings =
                                  Append(@, AppGetEmbedding(PaperText(papers[i]), FALSE).value),
                              !.metadata = Append(@, papers[i]),
                              !.calls = @ + 1])

EmptyAcc == [embeddings |-> <<>>, metadata |-> <<>>, failed |-> {}, calls |-> 0]

\* A loop that records the paper before it embeds it (the metadata keeps the
\* papers whose embedding failed).
AppEmbedPapers_KeepFailed(papers, fail) ==
    [AppBuildLoop(papers, fail, 1, EmptyAcc) EXCEPT !.metadata = papers]

AppEmbedPapers(papers, fail) == AppBuildLoop(papers, fail, 1, EmptyAcc)

\* build_faiss_index(papers) called with globals faiss_index = fi and
\* paper_metadata = pm: the globals after the call and how the call ended.
AppBuildFaissIndex(papers, fail, fi, pm) ==
    IF papers = <<>>
    THEN [faiss_index |-> fi, paper_metadata |-> pm, failed |-> {}, calls |-> 0,
          outcome |-> "HTTP404: No papers to index"]
    ELSE LET r == AppEmbedPapers(papers, fail)
         IN  IF r.embeddings = <<>>
             THEN [faiss_index |-> fi, paper_metadata |-> r.metadata,
                   failed |-> r.failed, calls |-> r.calls,
                   outcome |-> "HTTP500: Failed to generate embeddings"]
             ELSE [faiss_index |-> IndexFlatL2(r.embeddings),
                   paper_metadata |-> r.metadata,
                   failed |-> r.failed, calls |-> r.calls, outcome |-> "ok"]

\* ------------------------------------- EmbeddingService.get_embedding
\* A get_embedding that stores and returns a zero vector when the backend
\* raises.
GetEmbedding_ZeroOnFailure(text, use_cache, cache, backendFails) ==
    IF use_cache /\ text \in DOMAIN cache
    THEN [ok |-> TRUE, value |-> cache[text], cache |-> cache, calls |-> 0]
    ELSE LET cleaned_text == CleanText(text, SvcMaxText)
             embedding == IF backendFails THEN <<0, 0>>
                          ELSE BackendEmbedding(model, cleaned_text)
         IN  [ok |-> TRUE, value |-> embedding,
              cache |-> IF use_cache THEN CachePut(cache, text, embedding)
                        ELSE cache,
              calls |-> 1]

\* get_embedding(text, use_cache) of a service whose cache is cache (lines
\* 26-51): backendFails says whether the backend call raises, should the
\* call be made.
GetEmbedding(text, use_cache, cache, backendFails) ==
    IF use_cache /\ text \in DOMAIN cache
    THEN [ok |-> TRUE, value |-> cache[text], cache |-> cache, calls |-> 0]
    ELSE IF backendFails
         THEN [ok |-> FALSE, value |-> <<>>, cache |-> cache, calls |-> 1]
         ELSE LET cleaned_text == CleanText(text, SvcMaxText)
                  embedding == BackendEmbedding(model, cleaned_text)
              IN  [ok |-> TRUE, value |-> embedding,
                   cache |-> IF use_cache THEN CachePut(cache, text, embedding)
                             ELSE cache,
                   calls |-> 1]

\* get_embedding(text) with use_cache = True, its default.
SvcGetEmbedding(text, cache, backendFails) ==
    GetEmbedding(text, TRUE, cache, backendFails)

\* ----------------------------------------- EmbeddingService.build_index
RECURSIVE SvcBuildLoop(_, _, _, _)
SvcBuildLoop(papers, fail, i, acc) ==
    IF i > Len(papers) THEN acc
    ELSE LET e == SvcGetEmbedding(SvcPaperText(papers[i]), acc.cache, i \in fail)
         IN  IF e.ok
             THEN SvcBuildLoop(papers, fail, i + 1,
                      [acc EXCEPT !.embeddings = Append(@, e.value),
                                  !.metadata = Append(@, papers[i]),
                                  !.cache = e.cache,
                                  !.calls = @ + e.calls])
             ELSE SvcBuildLoop(papers, fail, i + 1,
                      [acc EXCEPT !.failed = @ \cup {i},
                                  !.cache = e.cache,
                                  !.calls = @ + e.calls])

\* A loop that keeps a failed paper and gives it a zero vector.
SvcEmbedPapers_ZeroFill(papers, fail, cache) ==
    LET r == SvcBuildLoop(papers, fail, 1,
                 [embeddings |-> <<>>, metadata |-> <<>>, failed |-> {},
                  calls |-> 0, cache |-> cache])
    IN  [r EXCEPT !.metadata = papers,
                  !.embeddings = [i \in 1..Len(papers) |->
                                     IF i \in r.failed THEN <<0, 0>>
                                     ELSE BackendEmbedding(model,
                                              CleanText(SvcPaperText(papers[i]),
                                                        SvcMaxText))]]

SvcEmbedPapers(papers, fail, cache) ==
    SvcBuildLoop(papers, fail, 1,
                 [embeddings |-> <<>>, metadata |-> <<>>, failed |-> {},
                  calls |-> 0, cache |-> cache])

\* build_index(papers) on a service whose fields are ix, md, cache.
SvcBuildIndex(papers, fail, ix, md, cache) ==
    IF papers = <<>>
    THEN [index |-> ix, metadata |-> md, cache |-> cache, failed |-> {},
          calls |-> 0, outcome |-> "ValueError: No papers provided for indexing"]
    ELSE LET r == SvcEmbedPapers(papers, fail, cache)
         IN  IF r.embeddings = <<>>
             THEN [index |-> ix, metadata |-> md, cache |-> r.cache,
                   failed |-> r.failed, calls |-> r.calls,
                   outcome |-> "ValueError: No valid embeddings generated"]
             ELSE [index |-> IndexFlatL2(r.embeddings), metadata |-> r.metadata,
                   cache |-> r.cache, failed |-> r.failed, calls |-> r.calls,
                   outcome |-> "ok"]

\* ------------------------------------------------ faiss.IndexFlatL2.search
\* The k nearest stored vectors, nearest first; among equal distances the
\* lower position first.  Entry: its distance and its 0-based position.  When
\* fewer than k vectors are stored the rest is padded with position -1.
RECURSIVE FaissNearest(_, _, _, _)
FaissNearest(vecs, qv, k, taken) ==
    IF k = 0 THEN <<>>
    ELSE IF taken = DOMAIN vecs
         THEN <<[distance |-> FaissInf, idx |-> -1]>>
                  \o FaissNearest(vecs, qv, k - 1, taken)
         ELSE LET rest == (DOMAIN vecs) \ taken
                  best == CHOOSE i \in rest : \A j \in rest :
                              \/ L2(vecs[i], qv) < L2(vecs[j], qv)
                              \/ L2(vecs[i], qv) = L2(vecs[j], qv) /\ i <= j
              IN  <<[distance |-> L2(vecs[best], qv), idx |-> best - 1]>>
                      \o FaissNearest(vecs, qv, k - 1, taken \cup {best})

\* A search that returns the k farthest vectors first.
FaissSearch_Farthest(vecs, qv, k) ==
    LET near == FaissNearest(vecs, qv, Len(vecs), {})
    IN  [i \in 1..k |-> IF i <= Len(near) THEN near[Len(near) + 1 - i]
                        ELSE [distance |-> FaissInf, idx |-> -1]]

FaissSearch(vecs, qv, k) == FaissNearest(vecs, qv, k, {})

\* similarity = 1 / (1 + distance), kept as <<numerator, denominator>>.
Similarity(distance) == <<1, 1 + distance>>

\* Lines 311-316 of app.py, 104-110 of embedding_service.py: the hits whose
\* position is below len(metadata), each with a copy of its paper and score.
RECURSIVE CollectResults(_, _, _)
CollectResults(hits, md, i) ==
    IF i > Len(hits) THEN <<>>
    ELSE IF hits[i].idx < Len(md)
         THEN <<[paper |-> md[IF hits[i].idx >= 0 THEN hits[i].idx + 1
                                 ELSE Len(md) + 1 + hits[i].idx],
                 relevance_score |-> Similarity(hits[i].distance)]>>
                  \o CollectResults(hits, md, i + 1)
         ELSE CollectResults(hits, md, i + 1)

\* index.search(query_vector, min(k, index.ntotal))
SearchHits(ix, qv, k) == FaissSearch(ix.vecs, qv, Min(k, Len(ix.vecs)))

\* A search that embeds the query before it looks at the index.
AppSearchSimilarPapers_EmbedFirst(q, k, qfail, fi, pm) ==
    IF qfail
    THEN [results |-> <<>>, calls |-> 1, outcome |-> "HTTP500: Embedding failed",
          metadata |-> pm]
    ELSE IF fi = None
         THEN [results |-> <<>>, calls |-> 1, outcome |-> "HTTP400: Index not built",
               metadata |-> pm]
         ELSE [results |-> CollectResults(
                              SearchHits(fi, AppGetEmbedding(QueryText(q), FALSE).value, k),
                              pm, 1),
               calls |-> 1, outcome |-> "ok", metadata |-> pm]

\* A search that scores the stored papers instead of copies of them: a
\* stored paper that carries a score is a paper of its own, numbered 1000
\* above the paper as fetched.
AppSearchSimilarPapers_NoCopy(q, k, qfail, fi, pm) ==
    IF fi = None
    THEN [results |-> <<>>, calls |-> 0, outcome |-> "HTTP400: Index not built",
          metadata |-> pm]
    ELSE IF qfail
         THEN [results |-> <<>>, calls |-> 1, outcome |-> "HTTP500: Embedding failed",
               metadata |-> pm]
         ELSE LET hits == SearchHits(fi, AppGetEmbedding(QueryText(q), FALSE).value, k)
                  at(h) == IF h.idx >= 0 THEN h.idx + 1 ELSE Len(pm) + 1 + h.idx
                  hit == {at(hits[i]) : i \in {j \in DOMAIN hits : hits[j].idx < Len(pm)}}
              IN  [results |-> CollectResults(hits, pm, 1),
                   calls |-> 1, outcome |-> "ok",
                   metadata |-> [i \in DOMAIN pm |->
                                    IF i \in hit THEN pm[i] + 1000 ELSE pm[i]]]

\* search_similar_papers(query, top_k) with globals fi, pm; qfail: the
\* embedding of the query raises.  metadata: the stored papers when the
\* search is over; the score goes into a copy of each paper (line 313), so
\* they are the papers stored before.
AppSearchSimilarPapers(q, k, qfail, fi, pm) ==
    IF fi = None
    THEN [results |-> <<>>, calls |-> 0, outcome |-> "HTTP400: Index not built",
          metadata |-> pm]
    ELSE IF qfail
         THEN [results |-> <<>>, calls |-> 1, outcome |-> "HTTP500: Embedding failed",
               metadata |-> pm]
         ELSE [results |-> CollectResults(
                              SearchHits(fi, AppGetEmbedding(QueryText(q), FALSE).value, k),
                              pm, 1),
               calls |-> 1, outcome |-> "ok", metadata |-> pm]

\* EmbeddingService.search(query, k) on a service with fields ix, md, cache;
\* metadata: the stored papers when the search is over (a copy is scored,
\* line 106).
SvcSearch(q, k, qfail, ix, md, cache) ==
    IF ix = None
    THEN [results |-> <<>>, cache |-> cache, calls |-> 0,
          outcome |-> "ValueError: Index not built", metadata |-> md]
    ELSE LET e == SvcGetEmbedding(QueryText(q), cache, qfail)
         IN  IF ~e.ok
             THEN [results |-> <<>>, cache |-> e.cache, calls |-> e.calls,
                   outcome |-> "BackendError", metadata |-> md]
             ELSE [results |-> CollectResults(SearchHits(ix, e.value, k), md, 1),
                   cache |-> e.cache, calls |-> e.calls, outcome |-> "ok",
                   metadata |-> md]

\* ------------------------------------------------------- paper titles
\* A title is a sequence of characters.  Papers 2 and 3 carry the same title
\* up to case and spaces (one from each provider), every other paper of the
\* pipeline a title of its own.  The papers after NumPapers are a catalogue
\* of every title made of a run of "x" followed by TitleLen characters.
TitleChars == <<"A", "a", "b", " ", "\t", "-">>
NumChars == Len(TitleChars)
PadLens == <<0, KeyLen - 2, KeyLen - 1>>
NumTitles == Len(PadLens) * NumChars ^ TitleLen
KeyPapers == (NumPapers + 1)..(NumPapers + NumTitles)
Pad(n) == [i \in 1..n |-> "x"]
TitleNo(n) ==
    LET code == n \div Len(PadLens)
    IN  Pad(PadLens[(n % Len(PadLens)) + 1])
        \o [i \in 1..TitleLen |->
               TitleChars[((code \div NumChars ^ (i - 1)) % NumChars) + 1]]
\* The title None, which has no lower() (app.py line 249).
NoneTitle == <<"None">>
TitleOf(p) ==
    IF p = NullTitlePaper THEN NoneTitle
    ELSE IF p = 2 THEN <<"A", "b">>
    ELSE IF p = 3 THEN <<"a", " ", "b">>
    ELSE IF p <= NumPapers THEN [i \in 1..p |-> "c"]
    ELSE TitleNo(p - NumPapers - 1)

\* str.lower() on one character, and on a title.
LowerChar(c) == IF c = "A" THEN "a" ELSE c
Lower(t) == [i \in 1..Len(t) |-> LowerChar(t[i])]
\* str.replace(ch, "")
Remove(t, ch) == SelectSeq(t, LAMBDA c : c # ch)
Prefix(s, n) == SubSeq(s, 1, Min(n, Len(s)))

\* A paper as a fetcher returns it: the provider's item (id) and the title
\* the fetcher has put into the dict.  fetch_semantic_scholar_papers of app.py
\* takes the provider's title as it is (line 163), fetch_arxiv_papers strips
\* it and replaces its newlines (line 217); PaperFetcher strips the title in
\* fetch_semantic_scholar (data_sources.py line 48) and strips it and
\* replaces its newlines in fetch_arxiv (line 120).
AppS2Dicts(ssOut) ==
    [i \in DOMAIN ssOut |-> [id |-> ssOut[i], title |-> TitleOf(ssOut[i])]]
AppArxivDicts(axOut) ==
    [i \in DOMAIN axOut |->
        [id |-> axOut[i], title |-> ReplaceNewlines(Strip(TitleOf(axOut[i])))]]
FetcherS2Dicts(ssOut) ==
    [i \in DOMAIN ssOut |-> [id |-> ssOut[i], title |-> Strip(TitleOf(ssOut[i]))]]
FetcherArxivDicts(axOut) ==
    [i \in DOMAIN axOut |->
        [id |-> axOut[i], title |-> ReplaceNewlines(Strip(TitleOf(axOut[i])))]]
\* Papers handed to _deduplicate_papers by a caller, with their titles.
Dicts(papers) ==
    [i \in DOMAIN papers |-> [id |-> papers[i], title |-> TitleOf(papers[i])]]
IdsOf(papers) == [i \in DOMAIN papers |-> papers[i].id]

\* ------------------------------------------------ app.py: fetch_all_papers
\* Line 249: paper["title"].lower().replace(" ", "")[:50]
AppTitleKey(t) == Prefix(Remove(Lower(t), " "), KeyLen)
TitleKey(paper) == AppTitleKey(paper.title)

Sources == {<<>>, <<"semantic_scholar">>, <<"arxiv">>,
            <<"semantic_scholar", "arxiv">>, <<"arxiv", "semantic_scholar">>,
            <<"pubmed">>}

\* A loop that puts each new paper at the head of unique_papers.
RECURSIVE DedupLoop_Prepend(_, _, _, _)
DedupLoop_Prepend(all_papers, i, seen_titles, unique_papers) ==
    IF i > Len(all_papers) THEN unique_papers
    ELSE IF TitleKey(all_papers[i]) \in seen_titles
         THEN DedupLoop_Prepend(all_papers, i + 1, seen_titles, unique_papers)
         ELSE DedupLoop_Prepend(all_papers, i + 1,
                                seen_titles \cup {TitleKey(all_papers[i])},
                                <<all_papers[i]>> \o unique_papers)

\* Lines 245-252: first occurrence of each title key, in order.
RECURSIVE DedupLoop(_, _, _, _)
DedupLoop(all_papers, i, seen_titles, unique_papers) ==
    IF i > Len(all_papers) THEN unique_papers
    ELSE IF TitleKey(all_papers[i]) \in seen_titles
         THEN DedupLoop(all_papers, i + 1, seen_titles, unique_papers)
         ELSE DedupLoop(all_papers, i + 1,
                        seen_titles \cup {TitleKey(all_papers[i])},
                        Append(unique_papers, all_papers[i]))

\* One call of a source fetcher, as the aggregation issues it.
FetchCall(source, limit) == [source |-> source, limit |-> limit]

\* An aggregation that asks every source for max_results papers.
FetchAllPapers_NoDivision(sources, max_results, ssOut, axOut) ==
    IF Len(sources) = 0
    THEN [raised |-> TRUE, papers |-> <<>>, calls |-> <<>>]
    ELSE LET ss == "semantic_scholar" \in Range(sources)
             ax == "arxiv" \in Range(sources)
             all_papers == (IF ss THEN AppS2Dicts(ssOut) ELSE <<>>)
                           \o (IF ax THEN AppArxivDicts(axOut) ELSE <<>>)
             calls == (IF ss THEN <<FetchCall("semantic_scholar", max_results)>>
                             ELSE <<>>)
                      \o (IF ax THEN <<FetchCall("arxiv", max_results)>>
                                ELSE <<>>)
         IN  IF \E i \in DOMAIN all_papers : all_papers[i].title = NoneTitle
             THEN [raised |-> TRUE, papers |-> <<>>, calls |-> calls]
             ELSE [raised |-> FALSE,
                   papers |-> IdsOf(Prefix(DedupLoop(all_papers, 1, {}, <<>>),
                                           max_results)),
                   calls |-> calls]

\* fetch_all_papers(query, sources, max_results) when the two providers
\* return ssOut and axOut: the papers, or the ZeroDivisionError of line 236;
\* calls are the source fetches issued, in order.
FetchAllPapers(sources, max_results, ssOut, axOut) ==
    IF Len(sources) = 0
    THEN [raised |-> TRUE, papers |-> <<>>, calls |-> <<>>]
    ELSE LET results_per_source == max_results \div Len(sources)
             ss == "semantic_scholar" \in Range(sources)
             ax == "arxiv" \in Range(sources)
             all_papers == (IF ss THEN AppS2Dicts(ssOut) ELSE <<>>)
                           \o (IF ax THEN AppArxivDicts(axOut) ELSE <<>>)
             calls == (IF ss THEN <<FetchCall("semantic_scholar", results_per_source)>>
                             ELSE <<>>)
                      \o (IF ax THEN <<FetchCall("arxiv", results_per_source)>>
                                ELSE <<>>)
         IN  IF \E i \in DOMAIN all_papers : all_papers[i].title = NoneTitle
             THEN [raised |-> TRUE, papers |-> <<>>, calls |-> calls]
             ELSE [raised |-> FALSE,
                   papers |-> IdsOf(Prefix(DedupLoop(all_papers, 1, {}, <<>>),
                                           max_results)),
                   calls |-> calls]

\* ------------------------------------- utils/data_sources.py: PaperFetcher
\* Line 182: paper["title"].lower().replace(" ", "").replace("-", "")[:50]
FetcherTitleKey(t) == Prefix(Remove(Remove(Lower(t), " "), "-"), KeyLen)

\* A pass that never finds a title among the seen ones.
DeduplicateLoop_NoSeen(papers, i, seen_titles, unique_papers) == papers

\* Lines 175-189: _deduplicate_papers.
RECURSIVE DeduplicateLoop(_, _, _, _)
DeduplicateLoop(papers, i, seen_titles, unique_papers) ==
    IF i > Len(papers) THEN unique_papers
    ELSE LET normalized_title == FetcherTitleKey(papers[i].title)
         IN  IF normalized_title \in seen_titles
             THEN DeduplicateLoop(papers, i + 1, seen_titles, unique_papers)
             ELSE DeduplicateLoop(papers, i + 1,
                                  seen_titles \cup {normalized_title},
                                  Append(unique_papers, papers[i]))
\* A pass that returns the unique papers last first.
DeduplicatePapers_Reversed(papers) ==
    LET unique_papers == DeduplicateLoop(papers, 1, {}, <<>>)
    IN  [i \in 1..Len(unique_papers) |-> unique_papers[Len(unique_papers) + 1 - i]]

DeduplicatePapers(papers) == DeduplicateLoop(papers, 1, {}, <<>>)

\* Lines 155-170: the loop over the sources as the caller listed them.
RECURSIVE FetchFromLoop(_, _, _, _, _, _)
FetchFromLoop(sources, max_per_source, ssOut, axOut, i, acc) ==
    IF i > Len(sources) THEN acc
    ELSE IF sources[i] \notin {"semantic_scholar", "arxiv"}
         THEN FetchFromLoop(sources, max_per_source, ssOut, axOut, i + 1, acc)
         ELSE FetchFromLoop(sources, max_per_source, ssOut, axOut, i + 1,
                  [all_papers |-> acc.all_papers
                        \o (IF sources[i] = "semantic_scholar"
                            THEN FetcherS2Dicts(ssOut) ELSE FetcherArxivDicts(axOut)),
                   calls |-> Append(acc.calls, FetchCall(sources[i], max_per_source))])

\* fetch_from_sources(query, sources, max_per_source), lines 151-173.
FetchFromSources(sources, max_per_source, ssOut, axOut) ==
    LET r == FetchFromLoop(sources, max_per_source, ssOut, axOut, 1,
                           [all_papers |-> <<>>, calls |-> <<>>])
    IN  [raised |-> FALSE, papers |-> IdsOf(DeduplicatePapers(r.all_papers)),
         calls |-> r.calls]

\* ------------------------------------------------------- source fetchers
\* What a provider answers.  error: "transport" (requests raises), "http" (a
\* status other than 200), "parse" (the body is not JSON / XML), "none".
\* A Semantic Scholar item has a title ("ok", "missing": no key, "null") and
\* an abstract; an arXiv entry has a title ("missing": no element, "null": an
\* element without text), a summary, kids (the title, summary and id elements
\* have child elements) and extras (the published element and the text/html
\* link are there).  An abstract of kind "text" has n characters, ws of them
\* whitespace at its two ends.
NoAbstract == [kind |-> "missing", n |-> 0, ws |-> 0]
NullAbstract == [kind |-> "null", n |-> 0, ws |-> 0]
AbstractText(n, ws) == [kind |-> "text", n |-> n, ws |-> ws]
AbstractLens == {0, 1, AppMinAbstract, AppMinAbstract + 1,
                 FetcherMinAbstract - 1, FetcherMinAbstract}
Abstracts ==
    {NoAbstract, NullAbstract}
    \cup {AbstractText(n, 0) : n \in AbstractLens}
    \cup {AbstractText(n, ws) : n \in {AppMinAbstract + 1, FetcherMinAbstract},
                                ws \in 1..MaxWs}
TitleStates == {"ok", "missing", "null"}
S2Items == [title : TitleStates, abstract : Abstracts]
ArxivEntries == [title : TitleStates, abstract : Abstracts,
                 kids : BOOLEAN, extras : BOOLEAN]
Failure(error) == [error |-> error, items |-> <<>>]
Answer(items) == [error |-> "none", items |-> items]
Failures == {Failure(e) : e \in {"transport", "http", "parse"}}
S2Responses == Failures \cup {Answer(l) : l \in ListsOver(S2Items, MaxItems)}
ArxivResponses == Failures \cup {Answer(l) : l \in ListsOver(ArxivEntries, MaxItems)}

\* str.strip() on an abstract: its length afterwards.
StripLen(a) == a.n - a.ws
Returned(papers) == [raised |-> FALSE, papers |-> papers]
Raised == [raised |-> TRUE, papers |-> <<>>]
\* The papers made of the items at the positions kept, in order; lens[i] is
\* the length of the abstract put into the paper of item i.
PapersOfItems(items, kept, lens) ==
    LET all == [i \in 1..Len(items) |->
                   [pos |-> i, title |-> items[i].title, abstract |-> lens[i]]]
    IN  SelectSeq(all, LAMBDA q : q.pos \in kept)
Positions(resp) == DOMAIN resp.items
RawLens(resp) == [i \in Positions(resp) |-> resp.items[i].abstract.n]
StripLens(resp) == [i \in Positions(resp) |-> StripLen(resp.items[i].abstract)]

\* app.py lines 142-176.  Any exception gives [] (lines 174-176): a kept
\* item without a "title" key is a KeyError at line 166.
AppS2Keeps(item) == item.abstract.kind = "text" /\ item.abstract.n > AppMinAbstract
AppFetchSemanticScholarPapers(resp) ==
    LET kept == {i \in Positions(resp) : AppS2Keeps(resp.items[i])}
    IN  IF resp.error # "none" THEN Returned(<<>>)
        ELSE IF \E i \in kept : resp.items[i].title = "missing"
        THEN Returned(<<>>)
        ELSE Returned(PapersOfItems(resp.items, kept, RawLens(resp)))

\* The text attribute of a summary element is None: ElementTree gives None
\* for an element without characters, so a summary of 0 characters is one.
SummaryTextIsNone(a) == a.kind = "null" \/ (a.kind = "text" /\ a.n = 0)

\* app.py lines 179-230.  An entry is taken when it has a title and a summary
\* element (line 200); an element without text is an AttributeError at line
\* 217 or 218, and any exception gives [] (lines 228-230).
AppArxivKeeps(entry) == entry.title # "missing" /\ entry.abstract.kind # "missing"
AppFetchArxivPapers(resp) ==
    LET kept == {i \in Positions(resp) : AppArxivKeeps(resp.items[i])}
    IN  IF resp.error # "none" THEN Returned(<<>>)
        ELSE IF \E i \in kept : \/ resp.items[i].title = "null"
                                \/ SummaryTextIsNone(resp.items[i].abstract)
        THEN Returned(<<>>)
        ELSE Returned(PapersOfItems(resp.items, kept, StripLens(resp)))

\* data_sources.py lines 19-66.  The length is tested before the strip of
\* line 49; item["title"].strip() raises on a missing or null title and the
\* handlers of lines 61-66 give [].
FetcherS2Keeps(item) ==
    item.abstract.kind = "text" /\ item.abstract.n >= FetcherMinAbstract
FetcherFetchSemanticScholar(resp) ==
    LET kept == {i \in Positions(resp) : FetcherS2Keeps(resp.items[i])}
    IN  IF resp.error # "none" THEN Returned(<<>>)
        ELSE IF \E i \in kept : resp.items[i].title # "ok"
        THEN Returned(<<>>)
        ELSE Returned(PapersOfItems(resp.items, kept, StripLens(resp)))

\* data_sources.py lines 68-149.  Line 97 tests the truth value of the three
\* elements, which is false for None and for an element without child
\* elements; an exception inside one entry skips that entry (lines 140-142).
FetcherArxivKeeps(entry) ==
    /\ entry.title # "missing" /\ entry.abstract.kind # "missing" /\ entry.kids
    /\ entry.title # "null" /\ ~SummaryTextIsNone(entry.abstract)
    /\ StripLen(entry.abstract) >= FetcherMinAbstract
FetcherFetchArxiv(resp) ==
    LET kept == {i \in Positions(resp) : FetcherArxivKeeps(resp.items[i])}
    IN  IF resp.error # "none" THEN Returned(<<>>)
        ELSE Returned(PapersOfItems(resp.items, kept, StripLens(resp)))

\* fetch_arxiv.py lines 10-45: nothing is caught.  requests.get raises on a
\* transport error, line 27 on a status other than 200, ET.fromstring on a
\* malformed body, lines 36-40 on an entry that lacks an element or its text.
StandaloneEntryRaises(entry) ==
    \/ entry.title # "ok"
    \/ entry.abstract.kind # "text" \/ SummaryTextIsNone(entry.abstract)
    \/ ~entry.extras
StandaloneFetchArxivPapers(resp) ==
    IF resp.error # "none" THEN Raised
    ELSE IF \E i \in Positions(resp) : StandaloneEntryRaises(resp.items[i])
    THEN Raised
    ELSE Returned(PapersOfItems(resp.items, Positions(resp), StripLens(resp)))

\* ------------------------------------------------ app.py: explain_relevance
FallbackExplanation == "This paper appears relevant based on semantic similarity to your query."
ExplainRelevance(backendFails) ==
    IF backendFails THEN FallbackExplanation ELSE "generated"

\* Lines 359-372: an explanation for each of the first five results.
TopExplained == 5
WithExplanations(similar_papers, explFail) ==
    [i \in 1..Len(similar_papers) |->
        [paper |-> similar_papers[i].paper,
         relevance_score |-> similar_papers[i].relevance_score,
         explanation |-> IF i <= TopExplained THEN ExplainRelevance(i \in explFail)
                         ELSE "null"]]

\* ------------------------------------------------------- the function calls
\* No handler is running on the event loop and the last caller has its
\* result; uploads may be waiting at await file.read().
Idle == rc.state = "EMPTY" /\ last = NoCall /\ up.state = "EMPTY"

AppBuild(papers, fail) ==
    /\ prog = "app" /\ Idle
    /\ LET r == AppBuildFaissIndex(papers, fail, faiss_index, paper_metadata)
       IN  /\ faiss_index' = r.faiss_index
           /\ paper_metadata' = r.paper_metadata
           /\ last' = [NoCall EXCEPT !.op = "build", !.papers = papers,
                          !.failed = r.failed, !.outcome = r.outcome,
                          !.calls = r.calls]
    /\ UNCHANGED <<aside, ag, em, bt, st, prog, index, metadata, embedding_cache, rc>>

AppSearch(q, k, qfail) ==
    /\ prog = "app" /\ Idle
    /\ LET r == AppSearchSimilarPapers(q, k, qfail, faiss_index, paper_metadata)
       IN  /\ paper_metadata' = r.metadata
           /\ last' = [NoCall EXCEPT !.op = "search", !.query = q, !.k = k,
                          !.outcome = r.outcome, !.results = r.results,
                          !.calls = r.calls]
    /\ UNCHANGED <<aside, ag, em, bt, st, prog, faiss_index, index, metadata,
                   embedding_cache, rc>>

SvcBuild(papers, fail) ==
    /\ prog = "svc" /\ Idle
    /\ LET r == SvcBuildIndex(papers, fail, index, metadata, embedding_cache)
       IN  /\ index' = r.index
           /\ metadata' = r.metadata
           /\ embedding_cache' = r.cache
           /\ last' = [NoCall EXCEPT !.op = "build", !.papers = papers,
                          !.failed = r.failed, !.outcome = r.outcome,
                          !.calls = r.calls]
    /\ UNCHANGED <<aside, ag, em, bt, st, prog, faiss_index, paper_metadata, rc>>

SvcSearchCall(q, k, qfail) ==
    /\ prog = "svc" /\ Idle
    /\ LET r == SvcSearch(q, k, qfail, index, metadata, embedding_cache)
       IN  /\ embedding_cache' = r.cache
           /\ metadata' = r.metadata
           /\ last' = [NoCall EXCEPT !.op = "search", !.query = q, !.k = k,
                          !.outcome = r.outcome, !.results = r.results,
                          !.calls = r.calls]
    /\ UNCHANGED <<aside, ag, em, bt, st, prog, faiss_index, paper_metadata, index, rc>>

\* The caller of build or search has taken what the call gave.
CallReturn ==
    /\ rc.state = "EMPTY" /\ last # NoCall
    /\ last' = NoCall
    /\ UNCHANGED <<aside, ag, em, bt, st, prog, faiss_index, paper_metadata, index, metadata,
                   embedding_cache, rc>>

\* --------------------------------------------- app.py: recommend_papers
\* The handler runs to completion on the event loop (it awaits nothing), so
\* no other call is taken between its stages.
NoRequest == [state |-> "EMPTY", query |-> 0, max_results |-> 0,
              fetched |-> FALSE, papers |-> <<>>,
              response |-> "none", results |-> <<>>]

Fail(response) == [rc EXCEPT !.state = "FAILED", !.response = response]

\* Lines 339-344: a new request; blank: query.text.strip() is empty.
RecStart(q, max_results, blank) ==
    /\ prog = "app" /\ Idle
    /\ rc' = IF blank
             THEN [NoRequest EXCEPT !.state = "FAILED", !.query = q,
                       !.max_results = max_results,
                       !.response = "HTTP400: Query text cannot be empty"]
             ELSE [NoRequest EXCEPT !.state = "FETCHING", !.query = q,
                       !.max_results = max_results]
    /\ last' = NoCall
    /\ UNCHANGED <<aside, ag, em, bt, st, prog, faiss_index, paper_metadata, index, metadata,
                   embedding_cache>>

\* A handler that hands whatever was fetched to the index build.
RecFetch_NoEmptyCheck(sources, ssOut, axOut) ==
    /\ prog = "app" /\ rc.state = "FETCHING"
    /\ LET f == FetchAllPapers(sources, rc.max_results, ssOut, axOut)
       IN  rc' = IF f.raised THEN Fail("HTTP500: Internal server error")
                 ELSE [rc EXCEPT !.state = "INDEXING", !.fetched = TRUE,
                           !.papers = f.papers]
    /\ UNCHANGED <<aside, ag, em, bt, st, prog, faiss_index, paper_metadata, index, metadata,
                   embedding_cache, last>>

\* Lines 347-350: fetched says that fetch_all_papers returned, papers what.
RecFetch(sources, ssOut, axOut) ==
    /\ prog = "app" /\ rc.state = "FETCHING"
    /\ LET f == FetchAllPapers(sources, rc.max_results, ssOut, axOut)
       IN  rc' = IF f.raised THEN Fail("HTTP500: Internal server error")
                 ELSE IF f.papers = <<>>
                      THEN [Fail("HTTP404: No papers found for the given query")
                               EXCEPT !.fetched = TRUE]
                      ELSE [rc EXCEPT !.state = "INDEXING", !.fetched = TRUE,
                                !.papers = f.papers]
    /\ UNCHANGED <<aside, ag, em, bt, st, prog, faiss_index, paper_metadata, index, metadata,
                   embedding_cache, last>>

\* A handler that goes on to the search whatever the build did.
RecIndex_IgnoreFailure(fail) ==
    /\ prog = "app" /\ rc.state = "INDEXING"
    /\ LET r == AppBuildFaissIndex(rc.papers, fail, faiss_index, paper_metadata)
       IN  /\ faiss_index' = r.faiss_index
           /\ paper_metadata' = r.paper_metadata
           /\ last' = [NoCall EXCEPT !.op = "build", !.papers = rc.papers,
                          !.failed = r.failed, !.outcome = r.outcome,
                          !.calls = r.calls]
           /\ rc' = [rc EXCEPT !.state = "SEARCHING"]
    /\ UNCHANGED <<aside, ag, em, bt, st, prog, index, metadata, embedding_cache>>

\* A handler that builds an index only when there is none yet.
RecIndex_KeepIndex(fail) ==
    /\ prog = "app" /\ rc.state = "INDEXING"
    /\ LET r == IF faiss_index = None
                THEN AppBuildFaissIndex(rc.papers, fail, faiss_index, paper_metadata)
                ELSE [faiss_index |-> faiss_index, paper_metadata |-> paper_metadata,
                      failed |-> {}, calls |-> 0, outcome |-> "ok"]
       IN  /\ faiss_index' = r.faiss_index
           /\ paper_metadata' = r.paper_metadata
           /\ last' = [NoCall EXCEPT !.op = "build", !.papers = rc.papers,
                          !.failed = r.failed, !.outcome = r.outcome,
                          !.calls = r.calls]
           /\ rc' = IF r.outcome = "ok" THEN [rc EXCEPT !.state = "SEARCHING"]
                    ELSE Fail(r.outcome)
    /\ UNCHANGED <<aside, ag, em, bt, st, prog, index, metadata, embedding_cache>>

\* Line 353.
RecIndex(fail) ==
    /\ prog = "app" /\ rc.state = "INDEXING"
    /\ LET r == AppBuildFaissIndex(rc.papers, fail, faiss_index, paper_metadata)
       IN  /\ faiss_index' = r.faiss_index
           /\ paper_metadata' = r.paper_metadata
           /\ last' = [NoCall EXCEPT !.op = "build", !.papers = rc.papers,
                          !.failed = r.failed, !.outcome = r.outcome,
                          !.calls = r.calls]
           /\ rc' = IF r.outcome = "ok" THEN [rc EXCEPT !.state = "SEARCHING"]
                    ELSE Fail(r.outcome)
    /\ UNCHANGED <<aside, ag, em, bt, st, prog, index, metadata, embedding_cache>>

\* Lines 356-381.
RecSearch(qfail, explFail) ==
    /\ prog = "app" /\ rc.state = "SEARCHING"
    /\ LET r == AppSearchSimilarPapers(rc.query, rc.max_results, qfail,
                                       faiss_index, paper_metadata)
       IN  /\ paper_metadata' = r.metadata
           /\ last' = [NoCall EXCEPT !.op = "search", !.query = rc.query,
                          !.k = rc.max_results, !.outcome = r.outcome,
                          !.results = r.results, !.calls = r.calls]
           /\ rc' = IF r.outcome = "ok"
                    THEN [rc EXCEPT !.state = "READY", !.response = "HTTP200",
                              !.results = WithExplanations(r.results, explFail)]
                    ELSE Fail(r.outcome)
    /\ UNCHANGED <<aside, ag, em, bt, st, prog, faiss_index, index, metadata,
                   embedding_cache>>

\* The response (or the error) has been sent to the client that posted the
\* query; the handler is done.  The uploads that wait for their file have
\* waited while this request was answered.
RecReturn ==
    /\ prog = "app" /\ rc.state \in {"READY", "FAILED"} /\ up.state = "EMPTY"
    /\ rc' = NoRequest
    /\ last' = NoCall
    /\ up' = [up EXCEPT !.overtaken = IF rc.state = "READY" THEN up.reading ELSE @]
    /\ UNCHANGED <<model, disk, xp, ag, em, bt, st, prog, faiss_index, paper_metadata,
                   index, metadata, embedding_cache>>

\* ------------------------------ two threads sharing one EmbeddingService
ThreadLists == {l \in PaperLists : Range(l) \subseteq 1..ThreadPapers}
\* build_index and search take no lock; a thread switch can fall between any
\* two reads or writes of self.index, self.metadata and self.embedding_cache,
\* and falls wherever a thread waits for the embedding backend.
BuilderIdle == [pc |-> "idle", papers |-> <<>>, i |-> 0, embeddings |-> <<>>,
                valid_metadata |-> <<>>, index |-> None]
SearcherIdle == [pc |-> "idle", q |-> 0, query_vector |-> <<>>, k |-> 0, ix |-> None,
                 ix_n |-> None, hits |-> <<>>, i |-> 0, mds |-> {}, results |-> <<>>,
                 outcome |-> "none"]

\* Lines 55-63: no papers is a ValueError; otherwise the loop starts.
BuildBegin(papers) ==
    /\ bt.pc = "idle"
    /\ bt' = IF papers = <<>> THEN BuilderIdle
             ELSE [BuilderIdle EXCEPT !.pc = "lookup", !.papers = papers, !.i = 1]
    /\ UNCHANGED <<aside, ag, em, prog, faiss_index, paper_metadata, index, metadata,
                   embedding_cache, last, rc, st>>

\* The builder b is through with paper b.i: the next paper, or lines 79-85
\* when the loop is over (no embedding is a ValueError; otherwise the new
\* index is filled, in a local).
BuildAdvance(b) ==
    IF b.i < Len(b.papers) THEN [b EXCEPT !.pc = "lookup", !.i = @ + 1]
    ELSE IF b.embeddings = <<>> THEN BuilderIdle
    ELSE [b EXCEPT !.pc = "set_index", !.index = IndexFlatL2(b.embeddings)]

\* Lines 66-68 and 28-29: the text of paper i is looked up in the cache; a
\* hit is taken (lines 69-70), a miss goes to the backend (line 37).
BuildLookup ==
    /\ bt.pc = "lookup"
    /\ LET text == SvcPaperText(bt.papers[bt.i])
       IN  bt' = IF text \in DOMAIN embedding_cache
                 THEN BuildAdvance([bt EXCEPT
                          !.embeddings = Append(@, embedding_cache[text]),
                          !.valid_metadata = Append(@, bt.papers[bt.i])])
                 ELSE [bt EXCEPT !.pc = "backend"]
    /\ UNCHANGED <<aside, ag, em, prog, faiss_index, paper_metadata, index, metadata,
                   embedding_cache, last, rc, st>>

\* Lines 37-47: the backend answers and the vector is written to the cache
\* (line 45) and kept (lines 69-70); or the backend raises and the paper is
\* skipped (lines 49-51, 75-77).
BuildBackend(backendFails) ==
    /\ bt.pc = "backend"
    /\ LET text == SvcPaperText(bt.papers[bt.i])
           embedding == BackendEmbedding(model, CleanText(text, SvcMaxText))
       IN  IF backendFails
           THEN /\ bt' = BuildAdvance(bt)
                /\ UNCHANGED embedding_cache
           ELSE /\ embedding_cache' = CachePut(embedding_cache, text, embedding)
                /\ bt' = BuildAdvance([bt EXCEPT
                              !.embeddings = Append(@, embedding),
                              !.valid_metadata = Append(@, bt.papers[bt.i])])
    /\ UNCHANGED <<aside, ag, em, prog, faiss_index, paper_metadata, index, metadata,
                   last, rc, st>>

\* Line 87: self.index = index
BuildSetIndex ==
    /\ bt.pc = "set_index"
    /\ index' = bt.index
    /\ bt' = [bt EXCEPT !.pc = "set_metadata"]
    /\ UNCHANGED <<aside, ag, em, prog, faiss_index, paper_metadata, metadata, embedding_cache,
                   last, rc, st>>

\* Line 88: self.metadata = valid_metadata, and the return.
BuildSetMetadata ==
    /\ bt.pc = "set_metadata"
    /\ metadata' = bt.valid_metadata
    /\ bt' = BuilderIdle
    /\ UNCHANGED <<aside, ag, em, prog, faiss_index, paper_metadata, index, embedding_cache,
                   last, rc, st>>

\* Lines 95-96: the None check.
SearchBegin(q, k) ==
    /\ st.pc = "idle"
    /\ st' = IF index = None
             THEN [SearcherIdle EXCEPT !.pc = "done",
                      !.outcome = "ValueError: Index not built"]
             ELSE [SearcherIdle EXCEPT !.pc = "lookup", !.q = q, !.k = k]
    /\ UNCHANGED <<aside, ag, em, prog, faiss_index, paper_metadata, index, metadata,
                   embedding_cache, last, rc, bt>>

\* Lines 98 and 28-29: the query is looked up in the cache; a miss goes to
\* the backend (line 37).
SearchLookup ==
    /\ st.pc = "lookup"
    /\ LET text == QueryText(st.q)
       IN  st' = IF text \in DOMAIN embedding_cache
                 THEN [st EXCEPT !.pc = "read_index",
                          !.query_vector = embedding_cache[text]]
                 ELSE [st EXCEPT !.pc = "backend"]
    /\ UNCHANGED <<aside, ag, em, prog, faiss_index, paper_metadata, index, metadata,
                   embedding_cache, last, rc, bt>>

\* Lines 37-47: the backend answers and the vector is written to the cache
\* (line 45); or the backend raises and so does the search (lines 49-51).
SearchBackend(qfail) ==
    /\ st.pc = "backend"
    /\ LET text == QueryText(st.q)
           embedding == BackendEmbedding(model, CleanText(text, SvcMaxText))
       IN  IF qfail
           THEN /\ st' = [SearcherIdle EXCEPT !.pc = "done", !.outcome = "BackendError"]
                /\ UNCHANGED embedding_cache
           ELSE /\ embedding_cache' = CachePut(embedding_cache, text, embedding)
                /\ st' = [st EXCEPT !.pc = "read_index", !.query_vector = embedding]
    /\ UNCHANGED <<aside, ag, em, prog, faiss_index, paper_metadata, index, metadata,
                   last, rc, bt>>

\* Line 102, the callee: self.index is read and its search method bound.
SearchReadIndex ==
    /\ st.pc = "read_index"
    /\ st' = [st EXCEPT !.pc = "read_ntotal", !.ix = index]
    /\ UNCHANGED <<aside, ag, em, prog, faiss_index, paper_metadata, index, metadata,
                   embedding_cache, last, rc, bt>>

\* Line 102, the argument: self.index is read again for ntotal, then the
\* bound index is searched.
SearchRun ==
    /\ st.pc = "read_ntotal"
    /\ st' = [st EXCEPT !.pc = "loop_len", !.i = 1, !.ix_n = index,
                 !.hits = FaissSearch(st.ix.vecs, st.query_vector,
                                      Min(st.k, Len(index.vecs)))]
    /\ UNCHANGED <<aside, ag, em, prog, faiss_index, paper_metadata, index, metadata,
                   embedding_cache, last, rc, bt>>

\* Line 106: idx < len(self.metadata), or the end of the loop.
SearchLoopLen ==
    /\ st.pc = "loop_len"
    /\ st' = IF st.i > Len(st.hits)
             THEN [st EXCEPT !.pc = "done", !.outcome = "ok"]
             ELSE IF st.hits[st.i].idx < Len(metadata)
                  THEN [st EXCEPT !.pc = "loop_copy", !.mds = @ \cup {metadata}]
                  ELSE [st EXCEPT !.i = @ + 1, !.mds = @ \cup {metadata}]
    /\ UNCHANGED <<aside, ag, em, prog, faiss_index, paper_metadata, index, metadata,
                   embedding_cache, last, rc, bt>>

\* Lines 107-110: self.metadata[idx].copy() and the score; an index past the
\* end of the list now bound to self.metadata raises IndexError.
SearchLoopCopy ==
    /\ st.pc = "loop_copy"
    /\ LET idx == st.hits[st.i].idx
           pos == IF idx >= 0 THEN idx + 1 ELSE Len(metadata) + 1 + idx
       IN  st' = IF pos \in DOMAIN metadata
                 THEN [st EXCEPT !.pc = "loop_len", !.i = @ + 1,
                          !.mds = @ \cup {metadata},
                          !.results = Append(@,
                              [paper |-> metadata[pos],
                               relevance_score |-> Similarity(st.hits[st.i].distance)])]
                 ELSE [st EXCEPT !.pc = "done", !.outcome = "IndexError",
                          !.mds = @ \cup {metadata}]
    /\ UNCHANGED <<aside, ag, em, prog, faiss_index, paper_metadata, index, metadata,
                   embedding_cache, last, rc, bt>>

\* Line 112: the caller has the results (or the exception).
SearchReturn ==
    /\ st.pc = "done"
    /\ st' = SearcherIdle
    /\ UNCHANGED <<aside, ag, em, prog, faiss_index, paper_metadata, index, metadata,
                   embedding_cache, last, rc, bt>>

\* --------------------------------------------- aggregation calls on their own
\* One call of fetch_all_papers, of PaperFetcher.fetch_from_sources or of
\* PaperFetcher._deduplicate_papers, with the providers' answers as inputs.
NoAgg == [op |-> "none", sources |-> <<>>, limit |-> 0, ssOut |-> <<>>,
          axOut |-> <<>>, input |-> <<>>, raised |-> FALSE, papers |-> <<>>,
          calls |-> <<>>, fn |-> "none", response |-> Failure("none")]
\* n get_embedding calls have been made; done maps every text whose
\* embedding was returned to the vector returned first; text, calls (made to
\* the backend), ok and value describe the latest call.
NoEmb == [n |-> 0, done |-> EmptyCache, text |-> <<>>, calls |-> 0,
          ok |-> FALSE, value |-> <<>>, use_cache |-> TRUE]

SourceTags == {"semantic_scholar", "arxiv", "pubmed"}
AggSources == ListsOver(SourceTags, MaxSources)
AggLimits == 0..MaxK

AggUnchanged == UNCHANGED <<aside, prog, faiss_index, paper_metadata, index, metadata,
                            embedding_cache, last, rc, bt, st, em>>

AppFetchAll(sources, max_results, ssOut, axOut) ==
    /\ ag = NoAgg
    /\ LET f == FetchAllPapers(sources, max_results, ssOut, axOut)
       IN  ag' = [NoAgg EXCEPT !.op = "fetch_all_papers", !.sources = sources,
                     !.limit = max_results, !.ssOut = ssOut, !.axOut = axOut,
                     !.raised = f.raised, !.papers = f.papers, !.calls = f.calls]
    /\ AggUnchanged

FetcherFetchFrom(sources, max_per_source, ssOut, axOut) ==
    /\ ag = NoAgg
    /\ LET f == FetchFromSources(sources, max_per_source, ssOut, axOut)
       IN  ag' = [NoAgg EXCEPT !.op = "fetch_from_sources", !.sources = sources,
                     !.limit = max_per_source, !.ssOut = ssOut, !.axOut = axOut,
                     !.raised = f.raised, !.papers = f.papers, !.calls = f.calls]
    /\ AggUnchanged

FetcherDeduplicate(papers) ==
    /\ ag = NoAgg
    /\ ag' = [NoAgg EXCEPT !.op = "_deduplicate_papers", !.input = papers,
                 !.papers = IdsOf(DeduplicatePapers(Dicts(papers)))]
    /\ AggUnchanged

\* The caller has taken the result.
AggReturn ==
    /\ ag # NoAgg
    /\ ag' = NoAgg
    /\ AggUnchanged

InitAgg ==
    /\ prog = "app"
    /\ faiss_index = None
    /\ paper_metadata = <<>>
    /\ index = None
    /\ metadata = <<>>
    /\ embedding_cache = EmptyCache
    /\ last = NoCall
    /\ rc = NoRequest
    /\ bt = BuilderIdle
    /\ st = SearcherIdle
    /\ ag = NoAgg
    /\ em = NoEmb
    /\ AsideInit

NextAgg ==
    \/ \E sources \in AggSources, max_results \in AggLimits,
          ssOut \in AppS2Lists, axOut \in FetchLists("arxiv") :
           AppFetchAll(sources, max_results, ssOut, axOut)
    \/ \E sources \in AggSources, max_per_source \in AggLimits,
          ssOut \in FetchLists("semantic_scholar"), axOut \in FetchLists("arxiv") :
           FetcherFetchFrom(sources, max_per_source, ssOut, axOut)
    \/ \E papers \in ListsOver(PaperIds, MaxLen) : FetcherDeduplicate(papers)
    \/ AggReturn

SpecAgg == InitAgg /\ [][NextAgg]_vars

\* Two catalogue papers returned by one provider go through each aggregation.
NextKeys ==
    \/ ag = NoAgg /\ \E p1, p2 \in KeyPapers :
           AppFetchAll(<<"semantic_scholar">>, MaxK, <<p1, p2>>, <<>>)
    \/ ag = NoAgg /\ \E p1, p2 \in KeyPapers :
           AppFetchAll(<<"arxiv">>, MaxK, <<>>, <<p1, p2>>)
    \/ ag = NoAgg /\ \E p1, p2 \in KeyPapers :
           FetcherFetchFrom(<<"semantic_scholar">>, MaxK, <<p1, p2>>, <<>>)
    \/ AggReturn

SpecKeys == InitAgg /\ [][NextKeys]_vars

\* ------------------------------------------- source fetches on their own
\* One call of a source fetcher against the answer of its provider.
SourceFetch(fn, resp, r) ==
    /\ ag = NoAgg
    /\ ag' = [NoAgg EXCEPT !.op = "source_fetch", !.fn = fn, !.response = resp,
                 !.raised = r.raised, !.papers = r.papers]
    /\ AggUnchanged

AppS2Fetch(resp) ==
    SourceFetch("app.fetch_semantic_scholar_papers", resp,
                AppFetchSemanticScholarPapers(resp))
AppArxivFetch(resp) ==
    SourceFetch("app.fetch_arxiv_papers", resp, AppFetchArxivPapers(resp))
FetcherS2Fetch(resp) ==
    SourceFetch("PaperFetcher.fetch_semantic_scholar", resp,
                FetcherFetchSemanticScholar(resp))
FetcherArxivFetch(resp) ==
    SourceFetch("PaperFetcher.fetch_arxiv", resp, FetcherFetchArxiv(resp))
StandaloneArxivFetch(resp) ==
    SourceFetch("fetch_arxiv.fetch_arxiv_papers", resp,
                StandaloneFetchArxivPapers(resp))

NextFetch ==
    \/ ag = NoAgg /\ \E resp \in S2Responses : AppS2Fetch(resp)
    \/ ag = NoAgg /\ \E resp \in ArxivResponses : AppArxivFetch(resp)
    \/ ag = NoAgg /\ \E resp \in S2Responses : FetcherS2Fetch(resp)
    \/ ag = NoAgg /\ \E resp \in ArxivResponses : FetcherArxivFetch(resp)
    \/ ag = NoAgg /\ \E resp \in ArxivResponses : StandaloneArxivFetch(resp)
    \/ AggReturn

SpecFetch == InitAgg /\ [][NextFetch]_vars

InitThreads ==
    /\ prog = "svc"
    /\ faiss_index = None
    /\ paper_metadata = <<>>
    /\ index = None
    /\ metadata = <<>>
    /\ embedding_cache = EmptyCache
    /\ last = NoCall
    /\ rc = NoRequest
    /\ bt = BuilderIdle
    /\ st = SearcherIdle
    /\ ag = NoAgg
    /\ em = NoEmb
    /\ AsideInit

NextThreads ==
    \/ \E papers \in ThreadLists : BuildBegin(papers)
    \/ BuildLookup
    \/ \E backendFails \in BOOLEAN : BuildBackend(backendFails)
    \/ BuildSetIndex
    \/ BuildSetMetadata
    \/ \E k \in 1..ThreadMaxK : SearchBegin(0, k)
    \/ SearchLookup
    \/ \E qfail \in BOOLEAN : SearchBackend(qfail)
    \/ SearchReadIndex
    \/ SearchRun
    \/ SearchLoopLen
    \/ SearchLoopCopy
    \/ SearchReturn

SpecThreads == InitThreads /\ [][NextThreads]_vars

Init ==
    /\ prog \in {"app", "svc"}
    /\ faiss_index = None
    /\ paper_metadata = <<>>
    /\ index = None
    /\ metadata = <<>>
    /\ embedding_cache = EmptyCache
    /\ last = NoCall
    /\ rc = NoRequest
    /\ bt = BuilderIdle
    /\ st = SearcherIdle
    /\ ag = NoAgg
    /\ em = NoEmb
    /\ AsideInit

Next ==
    \/ \E papers \in PaperLists : \E fail \in SUBSET (1..Len(papers)) :
           AppBuild(papers, fail)
    \/ \E q \in QueryIds, k \in Ks, qfail \in BOOLEAN : AppSearch(q, k, qfail)
    \/ \E papers \in PaperLists : \E fail \in SUBSET (1..Len(papers)) :
           SvcBuild(papers, fail)
    \/ \E q \in QueryIds, k \in Ks, qfail \in BOOLEAN : SvcSearchCall(q, k, qfail)
    \/ \E q \in QueryIds, m \in Ks, blank \in BOOLEAN : RecStart(q, m, blank)
    \/ \E sources \in Sources, ssOut \in AppS2Lists,
          axOut \in FetchLists("arxiv") :
           RecFetch(sources, ssOut, axOut)
    \/ \E fail \in SUBSET (1..Len(rc.papers)) : RecIndex(fail)
    \/ \E qfail \in BOOLEAN, explFail \in SUBSET (1..MaxExplFail) :
           RecSearch(qfail, explFail)
    \/ RecReturn
    \/ CallReturn

Spec == Init /\ [][Next]_vars

\* ------------------------------------------- get_embedding on its own
\* The texts handed to get_embedding: a paper text, a query text, every
\* short text over letters, spaces and newlines, and texts one character
\* longer than the longest text either program hands to its backend.
ShortTexts == ListsOver({"a", " ", "\n"}, MaxTextLen)
LongTexts == {Pad(max) \o <<c>> : max \in {AppMaxText, SvcMaxText}, c \in {"a", "b"}}
EmbedTexts == {PaperText(1), QueryText(0)} \cup ShortTexts \cup LongTexts

EmbRecord(text, r, use_cache) ==
    [n |-> em.n + 1,
     done |-> IF r.ok /\ text \notin DOMAIN em.done
              THEN CachePut(em.done, text, r.value) ELSE em.done,
     text |-> text, calls |-> r.calls, ok |-> r.ok, value |-> r.value,
     use_cache |-> use_cache]
EmbCalled(text, r) == em' = EmbRecord(text, r, TRUE)

AppEmbed(text, backendFails) ==
    /\ prog = "app" /\ em.n < MaxEmbedCalls
    /\ EmbCalled(text, AppGetEmbedding(text, backendFails))
    /\ UNCHANGED <<aside, prog, faiss_index, paper_metadata, index, metadata,
                   embedding_cache, last, rc, bt, st, ag>>

SvcEmbed(text, backendFails) ==
    /\ prog = "svc" /\ em.n < MaxEmbedCalls
    /\ LET r == SvcGetEmbedding(text, embedding_cache, backendFails)
       IN  /\ EmbCalled(text, r)
           /\ embedding_cache' = r.cache
    /\ UNCHANGED <<aside, prog, faiss_index, paper_metadata, index, metadata,
                   last, rc, bt, st, ag>>

NextEmbed ==
    \/ \E text \in EmbedTexts, backendFails \in BOOLEAN : AppEmbed(text, backendFails)
    \/ \E text \in EmbedTexts, backendFails \in BOOLEAN : SvcEmbed(text, backendFails)

SpecEmbed == Init /\ [][NextEmbed]_vars

\* ------------------------- an EmbeddingService and the files it is saved to
Models == {DefaultModel, OtherModel}
\* The paper lists and texts this service is given.
PersistLists == {<<1>>, <<2, 3>>}
PersistTexts == {SvcPaperText(1)}
FilesWritten == 0..3

\* EmbeddingService(api_key, model), lines 16-24: a new service takes the
\* place of the old one; the files stay where they are.
Construct(m) ==
    /\ prog = "svc" /\ Idle /\ em = NoEmb
    /\ model' = m
    /\ index' = None
    /\ metadata' = <<>>
    /\ embedding_cache' = EmptyCache
    /\ UNCHANGED <<disk, up, xp, ag, em, bt, st, prog, faiss_index, paper_metadata,
                   last, rc>>

\* save_index(filepath), lines 114-133: the three files are written one
\* after the other; written is the number of files written before a write
\* raises (3: none raises).  opened says whether the file whose write raises
\* had been opened for writing: open(path, 'wb') (lines 126, 130; fopen in
\* faiss.write_index, line 123) cuts the file, and the dump that raises
\* leaves it cut or partly written; when the open itself raises the file
\* keeps what an earlier save left in it, as do the files not reached.
SaveIndexFiles(written, opened, ix, md, cache, files) ==
    LET left(n, old) == IF written = n /\ opened THEN CutFile ELSE old
    IN  IF ix = None
        THEN [disk |-> files, outcome |-> "ValueError: No index to save"]
        ELSE [disk |-> [index |-> IF written >= 1 THEN File(ix)
                                  ELSE left(0, files.index),
                        metadata |-> IF written >= 2 THEN File(md)
                                     ELSE left(1, files.metadata),
                        cache |-> IF written >= 3 THEN File(cache)
                                  ELSE left(2, files.cache)],
              outcome |-> IF written = 3 THEN "ok" ELSE "IOError"]

SaveIndex(written, opened) ==
    /\ prog = "svc" /\ Idle /\ em = NoEmb
    /\ LET r == SaveIndexFiles(written, opened, index, metadata, embedding_cache, disk)
       IN  /\ disk' = r.disk
           /\ last' = [NoCall EXCEPT !.op = "save", !.outcome = r.outcome]
    /\ UNCHANGED <<model, up, xp, ag, em, bt, st, prog, faiss_index, paper_metadata,
                   index, metadata, embedding_cache, rc>>

\* load_index(filepath), lines 135-156: each file is read if it exists, and
\* the field of a file that does not exist keeps its value.  A file that
\* exists and cannot be read raises (faiss.read_index at line 142,
\* pickle.load at lines 148 and 153); the fields assigned before stay
\* assigned and the later files are not read.
Unreadable(file) == file.exists /\ ~file.readable
LoadIndexFiles(ix, md, cache, files) ==
    LET readIndex == IF files.index.exists THEN files.index.content ELSE ix
        readMetadata == IF files.metadata.exists THEN files.metadata.content ELSE md
        readCache == IF files.cache.exists THEN files.cache.content ELSE cache
    IN  IF Unreadable(files.index)
        THEN [index |-> ix, metadata |-> md, cache |-> cache, outcome |-> "LoadError"]
        ELSE IF Unreadable(files.metadata)
        THEN [index |-> readIndex, metadata |-> md, cache |-> cache,
              outcome |-> "LoadError"]
        ELSE IF Unreadable(files.cache)
        THEN [index |-> readIndex, metadata |-> readMetadata, cache |-> cache,
              outcome |-> "LoadError"]
        ELSE [index |-> readIndex, metadata |-> readMetadata, cache |-> readCache,
              outcome |-> "ok"]

LoadIndex ==
    /\ prog = "svc" /\ Idle /\ em = NoEmb
    /\ LET r == LoadIndexFiles(index, metadata, embedding_cache, disk)
       IN  /\ index' = r.index
           /\ metadata' = r.metadata
           /\ embedding_cache' = r.cache
           /\ last' = [NoCall EXCEPT !.op = "load", !.outcome = r.outcome]
    /\ UNCHANGED <<model, disk, up, xp, ag, em, bt, st, prog, faiss_index,
                   paper_metadata, rc>>

\* A lookup by the caller of the service.
Lookup(text, backendFails) ==
    Idle /\ em.n < MaxLookups /\ SvcEmbed(text, backendFails)

\* A lookup that asks for the cache to be left aside.
LookupUncached(text, backendFails) ==
    /\ prog = "svc" /\ Idle /\ em.n < MaxLookups
    /\ LET r == GetEmbedding(text, FALSE, embedding_cache, backendFails)
       IN  /\ em' = EmbRecord(text, r, FALSE)
           /\ embedding_cache' = r.cache
    /\ UNCHANGED <<aside, prog, faiss_index, paper_metadata, index, metadata,
                   last, rc, bt, st, ag>>

\* The caller has taken what its lookups gave.
LookupReturn ==
    /\ prog = "svc" /\ em # NoEmb
    /\ em' = NoEmb
    /\ UNCHANGED <<aside, prog, faiss_index, paper_metadata, index, metadata,
                   embedding_cache, last, rc, bt, st, ag>>

InitPersist == Init /\ prog = "svc"

NextPersist ==
    \/ \E m \in Models : Construct(m)
    \/ em = NoEmb /\ \E papers \in PersistLists : SvcBuild(papers, {})
    \/ \E written \in FilesWritten, opened \in BOOLEAN : SaveIndex(written, opened)
    \/ LoadIndex
    \/ \E text \in PersistTexts, backendFails \in BOOLEAN : Lookup(text, backendFails)
    \/ \E text \in PersistTexts, backendFails \in BOOLEAN :
           LookupUncached(text, backendFails)
    \/ LookupReturn
    \/ CallReturn

SpecPersist == InitPersist /\ [][NextPersist]_vars

\* --------------------------------------------- app.py: upload_document
\* max_results of the query built from a document (line 432).
UploadMaxResults == 15
GenericFault == "HTTP500: Failed to process document"

\* The uploads that may wait at await file.read() at one time.
MaxUploads == 1

\* Lines 393-398, up to await file.read().  supported: the file name ends in
\* .txt, .pdf or .md.  The raise of line 395 is inside the try of line 393,
\* so the handler of lines 441-443 catches it like any other exception.  A
\* supported upload is suspended at line 398 before it has read or written
\* any global: the event loop is free to run other handlers.
UploadBegin(supported) ==
    /\ prog = "app" /\ Idle
    /\ supported => up.reading < MaxUploads
    /\ up' = IF ~supported
             THEN [up EXCEPT !.state = "DONE", !.supported = FALSE,
                      !.inner = "HTTP400: Only .txt, .pdf, and .md files are supported",
                      !.response = GenericFault]
             ELSE [up EXCEPT !.reading = @ + 1]
    /\ UNCHANGED <<model, disk, xp, ag, em, bt, st, prog, faiss_index, paper_metadata,
                   index, metadata, embedding_cache, last, rc>>

\* Lines 398-433, from the return of file.read() to the call of
\* recommend_papers; nothing is awaited in between.  waited: the upload
\* resumed is one of the overtaken; q: the query its terms give;
\* extractFails: reading the file, decoding it or extracting its terms
\* raises; blank: the extracted terms are empty.
UploadResume(waited, q, extractFails, blank) ==
    /\ prog = "app" /\ Idle
    /\ IF waited THEN up.overtaken > 0 ELSE up.reading > up.overtaken
    /\ LET resumed == [up EXCEPT !.reading = @ - 1,
                          !.overtaken = IF waited THEN @ - 1 ELSE @,
                          !.waited = waited,
                          !.found = IF waited THEN Range(paper_metadata) ELSE {}]
       IN  IF extractFails
           THEN /\ up' = [resumed EXCEPT !.state = "DONE", !.inner = "Exception",
                             !.response = GenericFault, !.waited = FALSE,
                             !.found = {}]
                /\ UNCHANGED rc
           ELSE /\ up' = [resumed EXCEPT !.state = "CALLING"]
                /\ rc' = IF blank
                         THEN [NoRequest EXCEPT !.state = "FAILED", !.query = q,
                                   !.max_results = UploadMaxResults,
                                   !.response = "HTTP400: Query text cannot be empty"]
                         ELSE [NoRequest EXCEPT !.state = "FETCHING", !.query = q,
                                   !.max_results = UploadMaxResults]
    /\ UNCHANGED <<model, disk, xp, ag, em, bt, st, prog, faiss_index, paper_metadata,
                   index, metadata, embedding_cache, last>>

\* Lines 433-443: recommend_papers has returned or raised; it awaits
\* nothing, so no other handler has run since UploadResume.  An
\* HTTPException is an Exception, so whatever recommend_papers raised is
\* caught at line 441 and raised again as status 500; inner keeps what was
\* caught.
UploadReturn ==
    /\ prog = "app" /\ up.state = "CALLING" /\ rc.state \in {"READY", "FAILED"}
    /\ up' = [up EXCEPT !.state = "DONE", !.inner = rc.response,
                 !.response = IF rc.state = "READY" THEN "HTTP200" ELSE GenericFault,
                 !.results = rc.results, !.waited = FALSE, !.found = {},
                 !.overtaken = IF rc.state = "READY" THEN up.reading ELSE @]
    /\ rc' = NoRequest
    /\ last' = NoCall
    /\ UNCHANGED <<model, disk, xp, ag, em, bt, st, prog, faiss_index, paper_metadata,
                   index, metadata, embedding_cache>>

\* The response (or the error) has been sent to the client that posted the
\* document; the uploads still reading their files stay suspended.
UploadDone ==
    /\ prog = "app" /\ up.state = "DONE"
    /\ up' = [NoUpload EXCEPT !.reading = up.reading, !.overtaken = up.overtaken]
    /\ UNCHANGED <<model, disk, xp, ag, em, bt, st, prog, faiss_index, paper_metadata,
                   index, metadata, embedding_cache, last, rc>>

InitUpload == Init /\ prog = "app"

\* Both ways into the pipeline: a posted query and a posted document.  The
\* handlers run on one event loop: a handler keeps it until it awaits, and
\* the only await that gives it up is file.read() of line 398, so whole
\* requests are handled while uploads wait there.
NextUpload ==
    \/ \E q \in QueryIds, m \in Ks, blank \in BOOLEAN : RecStart(q, m, blank)
    \/ \E supported \in BOOLEAN : UploadBegin(supported)
    \/ \E waited \in BOOLEAN, q \in QueryIds, extractFails, blank \in BOOLEAN :
           UploadResume(waited, q, extractFails, blank)
    \/ \E sources \in Sources, ssOut \in AppS2Lists,
          axOut \in FetchLists("arxiv") :
           RecFetch(sources, ssOut, axOut)
    \/ \E fail \in SUBSET (1..Len(rc.papers)) : RecIndex(fail)
    \/ \E qfail \in BOOLEAN, explFail \in SUBSET (1..MaxExplFail) :
           RecSearch(qfail, explFail)
    \/ RecReturn
    \/ UploadReturn
    \/ UploadDone
    \/ \E q \in QueryIds, k \in Ks, qfail \in BOOLEAN : AppSearch(q, k, qfail)
    \/ CallReturn

SpecUpload == InitUpload /\ [][NextUpload]_vars

\* ------------------------------ ExplanationService.explain_relevance
\* (utils/explanation_service.py)
\* The paper dict handed to explain_relevance: for each key the function
\* reads, whether it holds a value of the expected type ("ok": the title
\* TitleOf(id), an abstract string, a list of author names), None ("null")
\* or is absent ("missing").
ExplainDicts ==
    [id : PaperIds, title : TitleStates, abstract : TitleStates, authors : TitleStates]

\* _build_explanation_prompt (lines 43-55) raises: paper['title'] and
\* paper['abstract'] raise KeyError on an absent key, None[:400] and
\* None[:3] raise TypeError; a None title is formatted as 'None', absent
\* authors default to [].  The text goes to the backend only.
BuildExplanationPromptRaises(paper) ==
    \/ paper.title = "missing"
    \/ paper.abstract # "ok"
    \/ paper.authors = "null"

\* _fallback_explanation (lines 57-59): the sentence built from the query
\* and the lower-cased title.  None.lower() raises AttributeError, an absent
\* title KeyError.
ServiceFallback(query, paper) ==
    IF paper.title # "ok"
    THEN [raised |-> TRUE, value |-> NullValue]
    ELSE [raised |-> FALSE,
          value |-> Str(<<"This paper appears relevant to '">> \o QueryText(query)
                        \o <<"' based on semantic similarity analysis. The research focuses on ">>
                        \o Lower(TitleOf(paper.id))
                        \o <<" which aligns with your search interests.">>)]

\* The loop of lines 20-41 from attempt on (attempt counts from 0, as
\* range(max_retries) does); fails holds the attempts, counted from 1, whose
\* backend call raises.  The fallback is built inside the except block of
\* the last attempt, so what it raises leaves the function.  A loop that
\* ends without a return leaves the function at its end, which returns None.
\* A backend answer returns its stripped content (lines 35-36).
RECURSIVE ExplainLoop(_, _, _, _, _)
ExplainLoop(query, paper, max_retries, fails, attempt) ==
    IF attempt >= max_retries
    THEN [raised |-> FALSE, value |-> NullValue, attempts |-> attempt]
    ELSE IF (attempt + 1) \notin fails
         THEN [raised |-> FALSE, value |-> Str(<<"generated">>),
               attempts |-> attempt + 1]
         ELSE IF attempt = max_retries - 1
              THEN [raised |-> ServiceFallback(query, paper).raised,
                    value |-> ServiceFallback(query, paper).value,
                    attempts |-> attempt + 1]
              ELSE ExplainLoop(query, paper, max_retries, fails, attempt + 1)

\* explain_relevance (lines 15-41): the prompt is built at line 18, before
\* the loop and outside its try, so what it raises leaves the function
\* before any attempt.
ServiceExplainRelevance(query, paper, max_retries, fails) ==
    IF BuildExplanationPromptRaises(paper)
    THEN [raised |-> TRUE, value |-> NullValue, attempts |-> 0]
    ELSE ExplainLoop(query, paper, max_retries, fails, 0)

\* explain_relevance of app.py (lines 108-135): one attempt, none when there
\* is no client; the prompt is built inside the try.
AppExplainRelevance(hasClient, backendFails) ==
    IF ~hasClient
    THEN [raised |-> FALSE, value |-> Str(<<FallbackExplanation>>), attempts |-> 0]
    ELSE [raised |-> FALSE, value |-> Str(<<ExplainRelevance(backendFails)>>),
          attempts |-> 1]

RetryCounts == 0..MaxRetries

ServiceExplain(q, paper, max_retries, fails) ==
    /\ xp = NoExpl
    /\ LET r == ServiceExplainRelevance(q, paper, max_retries, fails)
       IN  xp' = [op |-> "ExplanationService.explain_relevance", query |-> q,
                  paper |-> paper, max_retries |-> max_retries, fails |-> fails,
                  attempts |-> r.attempts, raised |-> r.raised, value |-> r.value]
    /\ UNCHANGED <<model, disk, up, ag, em, bt, st, prog, faiss_index, paper_metadata,
                   index, metadata, embedding_cache, last, rc>>

\* explain_relevance(query, title, abstract) of app.py, called with the
\* title and the abstract of a paper.
AppExplain(q, p, hasClient, backendFails) ==
    /\ xp = NoExpl
    /\ LET r == AppExplainRelevance(hasClient, backendFails)
       IN  xp' = [op |-> "explain_relevance", query |-> q,
                  paper |-> [NoPaper EXCEPT !.id = p],
                  max_retries |-> IF hasClient THEN 1 ELSE 0,
                  fails |-> IF backendFails THEN {1} ELSE {},
                  attempts |-> r.attempts, raised |-> r.raised, value |-> r.value]
    /\ UNCHANGED <<model, disk, up, ag, em, bt, st, prog, faiss_index, paper_metadata,
                   index, metadata, embedding_cache, last, rc>>

ExplainReturn ==
    /\ xp # NoExpl
    /\ xp' = NoExpl
    /\ UNCHANGED <<model, disk, up, ag, em, bt, st, prog, faiss_index, paper_metadata,
                   index, metadata, embedding_cache, last, rc>>

NextExplain ==
    \/ \E q \in QueryIds, paper \in ExplainDicts, max_retries \in RetryCounts :
           \E fails \in SUBSET (1..max_retries) :
               ServiceExplain(q, paper, max_retries, fails)
    \/ \E q \in QueryIds, p \in PaperIds, hasClient, backendFails \in BOOLEAN :
           AppExplain(q, p, hasClient, backendFails)
    \/ ExplainReturn

SpecExplain == InitAgg /\ [][NextExplain]_vars


\* ------------------------------------------------------------ properties
\* The index and the metadata the running program publishes.
CurIndex == IF prog = "app" THEN faiss_index ELSE index
CurMetadata == IF prog = "app" THEN paper_metadata ELSE metadata

\* Positional alignment: one vector per metadata entry, the i-th vector being
\* the embedding of the i-th paper.
Aligned(ix, md) ==
    /\ ~ix.isNone
    /\ Len(ix.vecs) = Len(md)
    /\ \A i \in 1..Len(md) : ix.vecs[i] = EmbeddingOf(TextOfPaper(md[i]))

BuildReturned == last.op = "build" /\ last.outcome = "ok"

\* The papers of a list at the positions outside failed, in their order.
RECURSIVE Surviving(_, _, _)
Surviving(papers, failed, i) ==
    IF i > Len(papers) THEN <<>>
    ELSE (IF i \in failed THEN <<>> ELSE <<papers[i]>>)
             \o Surviving(papers, failed, i + 1)

\* C1: after a rebuild that returns, the published index holds as many
\* vectors as there are published metadata entries, and the i-th vector is
\* the embedding of the i-th metadata paper, whatever embeddings failed.
C1_AlignedAfterRebuild == BuildReturned => Aligned(CurIndex, CurMetadata)

C1_Witness ==
    /\ BuildReturned
    /\ Len(last.papers) = 3
    /\ Cardinality(last.failed) = 1
    /\ Len(CurMetadata) = 2

\* C2: a search racing with a rebuild works on one generation: both reads of
\* self.index give the same index, every read of self.metadata gives the same
\* list, and that list is the metadata of that index.
SearchFinished == st.pc = "done" /\ st.outcome \in {"ok", "IndexError"}
C2_SearchSeesOneGeneration ==
    SearchFinished =>
        /\ st.ix_n = st.ix
        /\ \E md \in st.mds : st.mds = {md} /\ Aligned(st.ix, md)

\* C3: a rebuild that fails leaves the published index and metadata as they
\* were, so every search gives what it gave before the failed rebuild.
BuildFailedStep == last'.op = "build" /\ last'.outcome # "ok" /\ last' # last
C3_FailedRebuildKeepsGeneration ==
    [][BuildFailedStep =>
          /\ CurIndex' = CurIndex
          /\ CurMetadata' = CurMetadata
          /\ \A q \in QueryIds, k \in Ks :
                 AppSearchSimilarPapers(q, k, FALSE, faiss_index', paper_metadata').results
                     = AppSearchSimilarPapers(q, k, FALSE, faiss_index, paper_metadata).results]_vars

\* C4: a rebuild that succeeds publishes exactly the input papers whose
\* embedding succeeded, in input order, each with its own embedding: no entry
\* and no vector stands for a failed paper.
C4_OnlyEmbeddedPapersIndexed ==
    BuildReturned =>
        /\ CurMetadata = Surviving(last.papers, last.failed, 1)
        /\ Len(CurIndex.vecs) = Len(last.papers) - Cardinality(last.failed)
        /\ \A i \in 1..Len(CurIndex.vecs) :
               CurIndex.vecs[i] = EmbeddingOf(TextOfPaper(Surviving(last.papers, last.failed, 1)[i]))

C4_Witness ==
    /\ BuildReturned
    /\ Len(last.papers) = 3
    /\ last.failed = {1, 3}
    /\ CurMetadata = <<last.papers[2]>>

\* C5: a rebuild raises exactly when no embedding succeeded (one success is
\* enough for it to succeed, however many papers fail), and a rebuild that
\* raised has published nothing: index and metadata are the ones from before.
C5_FailsIffNoEmbeddingAndPublishesNothing ==
    [][(last'.op = "build" /\ last' # last) =>
          /\ (last'.outcome # "ok") <=> (last'.failed = 1..Len(last'.papers))
          /\ (last'.failed = 1..Len(last'.papers)) =>
                 (CurIndex' = CurIndex /\ CurMetadata' = CurMetadata)]_vars

\* a >= b for two scores <<numerator, denominator>>
ScoreGeq(a, b) == a[1] * b[2] >= b[1] * a[2]

SearchReturned == last.op = "search" /\ last.outcome = "ok"
QueryDistance(p) == L2(EmbeddingOf(QueryText(last.query)), EmbeddingOf(TextOfPaper(p)))

\* C6: a search with limit k returns at most min(k, number of indexed papers)
\* results (at most min(k, len(papers)) for the papers of the request that
\* built the index), each scored 1 / (1 + squared distance to the query), in
\* order of non-increasing score, that is of non-decreasing distance.
C6_SearchBoundedAndRanked ==
    /\ SearchReturned =>
          /\ Len(last.results) <= Min(last.k, Len(CurIndex.vecs))
          /\ \A i \in 1..Len(last.results) :
                 last.results[i].relevance_score
                     = <<1, 1 + QueryDistance(last.results[i].paper)>>
          /\ \A i, j \in 1..Len(last.results) :
                 i < j => /\ ScoreGeq(last.results[i].relevance_score,
                                      last.results[j].relevance_score)
                          /\ QueryDistance(last.results[i].paper)
                                 <= QueryDistance(last.results[j].paper)
    /\ rc.state = "READY" =>
          Len(rc.results) <= Min(rc.max_results, Len(rc.papers))

C6_Witness ==
    /\ SearchReturned
    /\ Len(CurIndex.vecs) = 3
    /\ last.k = 2
    /\ Len(last.results) = 2
    /\ ~ScoreGeq(last.results[2].relevance_score, last.results[1].relevance_score)

\* C7: a search whose k is at least the number n of vectors of the current
\* index returns exactly n results.
C7_SearchReturnsAllWhenKCoversIndex ==
    (SearchReturned /\ last.k >= Len(CurIndex.vecs)) =>
        Len(last.results) = Len(CurIndex.vecs)

\* C8: a search made while no index has been built raises the index-not-ready
\* error, returns nothing and makes no call to the embedding backend; no
\* other search raises that error.
IndexNotReady(outcome) ==
    outcome \in {"HTTP400: Index not built", "ValueError: Index not built"}
C8_SearchWithoutIndexRaises ==
    last.op = "search" =>
        /\ CurIndex = None => (IndexNotReady(last.outcome) /\ last.results = <<>>
                               /\ last.calls = 0)
        /\ IndexNotReady(last.outcome) => CurIndex = None

C8_Witness ==
    /\ last.op = "search"
    /\ CurIndex = None
    /\ IndexNotReady(last.outcome)

NoPapersFound == "HTTP404: No papers found for the given query"

\* C9: when fetch_all_papers returns no paper the request fails with the
\* no-papers-found error, and from the start of the request to its end no
\* build and no search is called and index and metadata stay as they were.
C9_NoPapersNoBuild ==
    [][/\ (rc.state = "FETCHING" /\ rc'.fetched /\ rc'.papers = <<>>) =>
              (rc'.state = "FAILED" /\ rc'.response = NoPapersFound)
       /\ (rc'.state = "FAILED" /\ rc'.response = NoPapersFound) =>
              /\ last' = NoCall
              /\ faiss_index' = faiss_index
              /\ paper_metadata' = paper_metadata
       /\ (rc.state = "FAILED" /\ rc.response = NoPapersFound) =>
              /\ last' = NoCall
              /\ faiss_index' = faiss_index
              /\ paper_metadata' = paper_metadata]_vars

C9_Witness ==
    /\ rc.state = "FAILED"
    /\ rc.response = NoPapersFound
    /\ rc.fetched
    /\ ~faiss_index.isNone
    /\ paper_metadata # <<>>

RECURSIVE PapersOf(_)
PapersOf(results) ==
    IF results = <<>> THEN <<>>
    ELSE <<Head(results).paper>> \o PapersOf(Tail(results))

\* C10: a request moves EMPTY -> FETCHING -> INDEXING -> SEARCHING -> READY
\* only: the search runs only after the build of the papers of this request
\* returned, READY is entered only when the search of this request returned
\* and carries its ranking, a failed fetch, build or search ends the request
\* in FAILED, and a failed request runs no further stage.
C10_StagesInOrder ==
    [][/\ (rc'.state = "FETCHING" /\ rc.state # "FETCHING") => rc.state = "EMPTY"
       /\ (rc'.state = "INDEXING" /\ rc.state # "INDEXING") =>
              (rc.state = "FETCHING" /\ rc'.papers # <<>>)
       /\ (rc'.state = "SEARCHING" /\ rc.state # "SEARCHING") =>
              /\ rc.state = "INDEXING"
              /\ last'.op = "build" /\ last'.outcome = "ok"
              /\ last'.papers = rc.papers
       /\ (rc'.state = "READY" /\ rc.state # "READY") =>
              /\ rc.state = "SEARCHING"
              /\ last'.op = "search" /\ last'.outcome = "ok"
              /\ last'.query = rc.query
              /\ PapersOf(rc'.results) = PapersOf(last'.results)
       /\ (rc.state = "INDEXING" /\ last'.op = "build" /\ last'.outcome # "ok") =>
              rc'.state = "FAILED"
       /\ (rc.state = "SEARCHING" /\ last'.op = "search" /\ last'.outcome # "ok") =>
              rc'.state = "FAILED"
       /\ rc.state = "FAILED" =>
              (rc'.state \in {"FAILED", "EMPTY"} /\ last' \in {last, NoCall}
               /\ faiss_index' = faiss_index /\ paper_metadata' = paper_metadata)]_vars

C10_Witness ==
    /\ rc.state = "READY"
    /\ Len(rc.results) >= 2
    /\ last.op = "search"

\* ---------------------------------------------------------- aggregation
AggOps == {"fetch_all_papers", "fetch_from_sources", "_deduplicate_papers"}
AggDone == ag.op \in AggOps /\ ~ag.raised
\* What the source fetches of the call returned, in the order of the fetches.
RECURSIVE FetchedBy(_, _)
FetchedBy(calls, i) ==
    IF i > Len(calls) THEN <<>>
    ELSE (IF ag.op = "fetch_all_papers"
          THEN IF calls[i].source = "semantic_scholar"
               THEN AppS2Dicts(ag.ssOut) ELSE AppArxivDicts(ag.axOut)
          ELSE IF calls[i].source = "semantic_scholar"
               THEN FetcherS2Dicts(ag.ssOut) ELSE FetcherArxivDicts(ag.axOut))
         \o FetchedBy(calls, i + 1)
FetchedDicts ==
    IF ag.op = "_deduplicate_papers" THEN Dicts(ag.input) ELSE FetchedBy(ag.calls, 1)
Fetched == IdsOf(FetchedDicts)
\* The title a fetched paper was returned with, and the key the called code
\* compares.
AggTitle(p) == FetchedDicts[CHOOSE i \in DOMAIN Fetched : Fetched[i] = p].title
AggKey(p) == IF ag.op = "fetch_all_papers" THEN AppTitleKey(AggTitle(p))
             ELSE FetcherTitleKey(AggTitle(p))
\* The papers of the result as the call returned them.
ResultDicts ==
    [i \in DOMAIN ag.papers |-> [id |-> ag.papers[i], title |-> AggTitle(ag.papers[i])]]
FirstWithKey(key) ==
    CHOOSE i \in DOMAIN Fetched :
        /\ AggKey(Fetched[i]) = key
        /\ \A j \in 1..(i - 1) : AggKey(Fetched[j]) # key

\* C11: of the fetched papers that have the same title key, only the one that
\* comes first in the order of the fetches can be in the result of the
\* aggregation, and no two papers of the result have the same key.
C11_FirstOfEachKeySurvives ==
    AggDone =>
        /\ \A i \in DOMAIN ag.papers :
               /\ ag.papers[i] \in Range(Fetched)
               /\ ag.papers[i] = Fetched[FirstWithKey(AggKey(ag.papers[i]))]
        /\ \A i, j \in DOMAIN ag.papers :
               i # j => AggKey(ag.papers[i]) # AggKey(ag.papers[j])
\* Two different fetched papers have one key, and the result holds one of them.
C11_Witness ==
    /\ AggDone /\ ag.op # "_deduplicate_papers"
    /\ \E i, j \in DOMAIN Fetched :
           /\ i < j /\ Fetched[i] # Fetched[j]
           /\ AggKey(Fetched[i]) = AggKey(Fetched[j])
           /\ Fetched[i] \in Range(ag.papers)

\* C12: deduplication is idempotent: deduplicating a result of the
\* deduplication again gives the same papers in the same order.
C12_DedupIdempotent ==
    /\ (AggDone /\ ag.op = "fetch_all_papers")
           => IdsOf(DedupLoop(ResultDicts, 1, {}, <<>>)) = ag.papers
    /\ (AggDone /\ ag.op # "fetch_all_papers")
           => IdsOf(DeduplicatePapers(ResultDicts)) = ag.papers
\* A deduplication that dropped a paper and kept at least two.
C12_Witness ==
    /\ AggDone /\ Len(ag.papers) >= 2
    /\ Len(ag.papers) < Len(Fetched)
    /\ \E i, j \in DOMAIN Fetched : Fetched[i] # Fetched[j]
                                   /\ AggKey(Fetched[i]) = AggKey(Fetched[j])

\* The title as the specification compares it: lower-cased, with every
\* whitespace character removed, cut to the first KeyLen characters.
NormalizedTitle(t) ==
    Prefix(SelectSeq(Lower(t), LAMBDA c : c \notin Whitespace), KeyLen)

\* C13: two papers are duplicates exactly when their titles are equal after
\* lower-casing, removing all whitespace (spaces, tabs, newlines) and cutting
\* to 50 characters: of two fetched papers one is returned when the
\* normalized titles are equal, both when they differ (by a hyphen, say).
C13_DuplicatesIffNormalizedTitlesEqual ==
    (AggDone /\ Len(Fetched) = 2 /\ ag.limit >= 2) =>
        (Len(ag.papers) = 1
            <=> NormalizedTitle(TitleOf(Fetched[1]))
                    = NormalizedTitle(TitleOf(Fetched[2])))

\* The deduplicated list: the fetched papers that are the first of their key,
\* in fetch order.
FirstPositions ==
    {i \in DOMAIN Fetched : \A j \in 1..(i - 1) : AggKey(Fetched[j]) # AggKey(Fetched[i])}
UniqueFetched ==
    [n \in 1..Cardinality(FirstPositions) |->
        Fetched[CHOOSE i \in FirstPositions :
                    Cardinality({j \in FirstPositions : j <= i}) = n]]
\* The values of max_results for which the call's per-source limit is
\* max_results integer-divided by the number of requested sources.
MaxResultsOf ==
    IF ag.op = "fetch_all_papers" THEN {ag.limit}
    ELSE {m \in 0..(MaxK * MaxSources + MaxSources) :
              Len(ag.sources) > 0 /\ m \div Len(ag.sources) = ag.limit}

\* C14: the result of an aggregation never has more than max_results papers,
\* and it is the first max_results papers of the deduplicated list, whatever
\* the sources return.
C14_TruncatedAfterDedup ==
    (AggDone /\ ag.op # "_deduplicate_papers") =>
        \A m \in MaxResultsOf :
            /\ Len(ag.papers) <= m
            /\ ag.papers = Prefix(UniqueFetched, m)

\* The requested sources are a non-empty set of provider tags.
Providers == {"semantic_scholar", "arxiv"}
SourceSetRequested ==
    /\ AggDone /\ ag.op # "_deduplicate_papers"
    /\ ag.sources # <<>>
    /\ Range(ag.sources) \subseteq Providers
    /\ Cardinality(Range(ag.sources)) = Len(ag.sources)

\* C15: for a non-empty set of requested sources the aggregation issues
\* exactly one fetch per requested source and no other, each with the limit
\* max_results integer-divided by the number of requested sources.
C15_OneFetchPerSource ==
    SourceSetRequested =>
        /\ Len(ag.calls) = Len(ag.sources)
        /\ \A src \in Range(ag.sources) :
               Cardinality({i \in DOMAIN ag.calls : ag.calls[i].source = src}) = 1
        /\ \A i \in DOMAIN ag.calls : \A m \in MaxResultsOf :
               ag.calls[i].limit = m \div Len(ag.sources)
\* Two sources share an odd max_results.
C15_Witness ==
    /\ SourceSetRequested /\ ag.op = "fetch_all_papers"
    /\ Len(ag.sources) = 2 /\ ag.limit = 3
    /\ Len(ag.calls) = 2 /\ ag.calls[1].limit = 1

\* The other ways the caller can list the same requested sources.
Count(seq, x) == Cardinality({i \in DOMAIN seq : seq[i] = x})
Listings(sources) ==
    {t \in AggSources : /\ Len(t) = Len(sources)
                        /\ \A x \in SourceTags : Count(t, x) = Count(sources, x)}
Aggregate(sources) ==
    IF ag.op = "fetch_all_papers"
    THEN FetchAllPapers(sources, ag.limit, ag.ssOut, ag.axOut)
    ELSE FetchFromSources(sources, ag.limit, ag.ssOut, ag.axOut)

\* C16: the outputs of the sources are concatenated in a fixed source order:
\* with the same provider responses the result of the aggregation is the same
\* for every order in which the caller lists the requested sources.
C16_ResultIndependentOfListingOrder ==
    (ag.op \in {"fetch_all_papers", "fetch_from_sources"}) =>
        \A t \in Listings(ag.sources) :
            /\ Aggregate(t).raised = ag.raised
            /\ Aggregate(t).papers = ag.papers

\* ------------------------------------------------------- source fetchers
\* C17: a source fetch never raises to its caller, and on a transport, parse
\* or provider error it returns the empty sequence (so that the aggregation
\* goes on with the papers of the other sources).
C17_SourceFetchNeverRaises ==
    ag.op = "source_fetch" =>
        /\ ~ag.raised
        /\ ag.response.error # "none" => ag.papers = <<>>

\* C18: every paper a source fetcher returns has an abstract of at least the
\* minimum length (the smallest length any fetcher compares with is taken);
\* an item whose abstract is missing or shorter is not returned.
C18_ReturnedAbstractsLongEnough ==
    (ag.op = "source_fetch" /\ ag.fn # "fetch_arxiv.fetch_arxiv_papers") =>
        \A i \in DOMAIN ag.papers :
            /\ ag.response.items[ag.papers[i].pos].abstract.kind = "text"
            /\ ag.papers[i].abstract >= AppMinAbstract

\* ------------------------------------------------------ embedding cache
EmbedStep == em'.n = em.n + 1

\* C19: embedding a text that was embedded before makes no call to the
\* backend and returns a vector equal to the one returned the first time.
C19_SameTextOneBackendCall ==
    [][(EmbedStep /\ em'.text \in DOMAIN em.done) =>
           /\ em'.calls = 0
           /\ em'.ok /\ em'.value = em.done[em'.text]]_vars

\* C20: the cache goes by the normalized text: after a text has been
\* embedded, embedding a text that is equal to it once newlines are replaced
\* by spaces, the ends trimmed and the length cut is a hit, without a call to
\* the backend.
C20_CacheKeyedByNormalizedText ==
    [][(EmbedStep /\ prog = "svc"
         /\ \E u \in DOMAIN em.done :
               CleanText(u, SvcMaxText) = CleanText(em'.text, SvcMaxText)) =>
           /\ em'.calls = 0
           /\ em'.ok]_vars

\* ------------------------------------------------ persistence and models
\* C21: a vector that get_embedding returns from the cache is the vector the
\* service's own model gives for that text: no vector computed under one
\* model is returned by a service that runs another, a cache restored by
\* load_index included.
C21_CachedVectorIsOfServiceModel ==
    [][(EmbedStep /\ em'.ok /\ em'.calls = 0) =>
           em'.value = BackendEmbedding(model, CleanText(em'.text, SvcMaxText))]_vars

NumVectors(ix) == Len(ix.vecs)
\* The index and the metadata are one generation: one vector per paper, each
\* the embedding of the paper at its position under one model.
SameGeneration(ix, md) ==
    /\ NumVectors(ix) = Len(md)
    /\ \E m \in Models : \A i \in 1..Len(md) :
           ix.vecs[i] = BackendEmbedding(m, CleanText(SvcPaperText(md[i]), SvcMaxText))

\* C25: when load_index has returned, the index of the service holds as many
\* vectors as its metadata has papers, and both are of one generation.
C25_AlignedAfterLoad ==
    (last.op = "load" /\ last.outcome = "ok") => SameGeneration(index, metadata)

\* ------------------------------------------------- aggregate failures
NoEmbeddings == "HTTP500: Failed to generate embeddings"
AggregateFailures == {NoPapersFound, NoEmbeddings, "HTTP400: Index not built"}

\* C22: each aggregate failure reaches the caller as its own condition, on
\* both ways into the pipeline: a request that fetched no paper ends in the
\* no-papers-found error, a build without any embedding in the
\* no-embeddings error, a search without an index in the index-not-ready
\* error, and an upload whose recommendation ended in one of the three
\* answers its client with that same condition.
C22_AggregateFailuresDistinct ==
    /\ (rc.state = "FAILED" /\ rc.fetched /\ rc.papers = <<>>) =>
           rc.response = NoPapersFound
    /\ (rc.state = "FAILED" /\ last.op = "build") => rc.response = NoEmbeddings
    /\ (last.op = "search" /\ faiss_index = None) =>
           last.outcome = "HTTP400: Index not built"
    /\ (up.state = "DONE" /\ up.inner \in AggregateFailures) =>
           up.response = up.inner

\* ------------------------------------------------- one query, one index
ResultPapers(results) == {results[i].paper : i \in DOMAIN results}

\* C23: every paper in the ranked result of a request is one of the papers
\* that fetch_all_papers returned for that request, whatever requests and
\* uploads were handled before it or while it waited for its file.
C23_ResultsAreOfThisQuery ==
    rc.state = "READY" => ResultPapers(rc.results) \subseteq Range(rc.papers)

\* An upload waited at await file.read() while another request was answered
\* with results; when it was resumed the index held a paper that was not
\* fetched for it, and its ranked result holds its own papers only.
C23_Witness ==
    /\ rc.state = "READY" /\ up.state = "CALLING"
    /\ up.waited
    /\ \E p \in up.found : p \notin Range(rc.papers)
    /\ rc.results # <<>>
    /\ Len(rc.papers) < rc.max_results
    /\ ResultPapers(rc.results) \subseteq Range(rc.papers)

\* ------------------------------------------------------- explanations
Explained == xp.op # "none"
\* The first attempt whose backend call does not raise, or 0.
FirstSuccess ==
    IF \E a \in 1..xp.max_retries : a \notin xp.fails
    THEN CHOOSE a \in 1..xp.max_retries :
             a \notin xp.fails /\ \A b \in 1..(a - 1) : b \in xp.fails
    ELSE 0

\* The dict is a paper as the fetchers make them: it has a title (which
\* app.py hands on as the provider gave it, null included), an abstract
\* string and a list of author names.
IsPaper(paper) ==
    paper.title # "missing" /\ paper.abstract = "ok" /\ paper.authors = "ok"

\* C24: explain_relevance does not raise and returns a string, never None,
\* for every paper, every max_retries from zero on and every set of failing
\* attempts; it makes at most max_retries backend attempts, and none after
\* the first that succeeds.
C24_ExplanationAlwaysAString ==
    (Explained /\ IsPaper(xp.paper)) =>
        /\ ~xp.raised
        /\ xp.value # NullValue
        /\ xp.attempts <= xp.max_retries
        /\ FirstSuccess # 0 => xp.attempts = FirstSuccess

\* ------------------------------------------------- requests without sources
Recognised == {"semantic_scholar", "arxiv"}
Unrecognised == {sources \in Sources : Range(sources) \cap Recognised = {}}

\* C26: a request whose sources hold no recognised tag (none at all
\* included) ends its fetch with the no-papers-found error, and that fetch
\* neither builds nor searches: index and metadata stay as they were.
C26_NoSourceMeansNoResults ==
    [][\A sources \in Unrecognised :
           RecFetch(sources, <<>>, <<>>) =>
               /\ rc'.state = "FAILED"
               /\ rc'.response = NoPapersFound
               /\ last' = last
               /\ faiss_index' = faiss_index
               /\ paper_metadata' = paper_metadata]_vars

\* ------------------------------------------------- nothing but removals
\* s from position i on can be found, in order, in t from position j on.
RECURSIVE SubsequenceFrom(_, _, _, _)
SubsequenceFrom(s, t, i, j) ==
    IF i > Len(s) THEN TRUE
    ELSE IF j > Len(t) THEN FALSE
    ELSE IF s[i] = t[j] THEN SubsequenceFrom(s, t, i + 1, j + 1)
    ELSE SubsequenceFrom(s, t, i, j + 1)

\* C27: the papers an aggregation returns are a subsequence of the papers
\* its source fetches returned, taken in the order of the fetches:
\* deduplication and truncation only leave papers out.
C27_OutputIsSubsequenceOfFetched ==
    AggDone => SubsequenceFrom(ag.papers, Fetched, 1, 1)

\* A paper in the middle of the fetched ones was left out and the papers
\* around it were returned.
C27_Witness ==
    /\ AggDone /\ ag.op # "_deduplicate_papers"
    /\ Len(ag.papers) >= 2
    /\ Len(ag.papers) < Len(Fetched)
    /\ ag.papers[1] = Fetched[1]
    /\ ag.papers[Len(ag.papers)] = Fetched[Len(Fetched)]

\* ------------------------------------------------- search changes nothing
SearchStep == last'.op = "search" /\ last.op # "search"
\* What a search for query q with limit k gives on the generation ix, md.
ResultsOn(ix, md, q, k) ==
    CollectResults(SearchHits(ix, EmbeddingOf(QueryText(q)), k), md, 1)

\* C28: a search leaves the index and the stored papers as they were, and
\* what it returns is given by the generation, the query and the limit
\* alone, so that two searches with one query on one generation return
\* equal results.
C28_SearchLeavesGeneration ==
    [][SearchStep =>
           /\ CurIndex' = CurIndex
           /\ CurMetadata' = CurMetadata
           /\ last'.outcome = "ok" =>
                  last'.results = ResultsOn(CurIndex, CurMetadata, last'.query, last'.k)]_vars

\* A service has answered a query it had embedded before, with two papers
\* or more, and its stored papers carry no score.
C28_Witness ==
    /\ prog = "svc"
    /\ last.op = "search" /\ last.outcome = "ok" /\ last.calls = 0
    /\ Len(last.results) >= 2
    /\ \A i \in DOMAIN metadata : metadata[i] \in PaperIds

\* ------------------------------------------------- failures and the cache
\* C29: a get_embedding call whose backend call raises raises itself and
\* leaves the cache as it was, and a call with use_cache false always goes
\* to the backend, returns what the backend gave and leaves the cache as it
\* was, whatever the cache holds for the text.
C29_FailureAndNoCacheLeaveCache ==
    [][/\ \A text \in PersistTexts :
              (text \notin DOMAIN embedding_cache /\ Lookup(text, TRUE)) =>
                  /\ ~em'.ok
                  /\ em'.calls = 1
                  /\ embedding_cache' = embedding_cache
       /\ \A text \in PersistTexts, backendFails \in BOOLEAN :
              LookupUncached(text, backendFails) =>
                  /\ em'.calls = 1
                  /\ em'.ok = ~backendFails
                  /\ em'.ok => em'.value =
                         BackendEmbedding(model, CleanText(text, SvcMaxText))
                  /\ embedding_cache' = embedding_cache]_vars

\* A call with use_cache false went to the backend, the backend raised, and
\* the cache, which holds other texts, holds nothing for the text.
C29_Witness ==
    /\ em.n > 0 /\ ~em.use_cache
    /\ em.calls = 1 /\ ~em.ok
    /\ embedding_cache # EmptyCache
    /\ em.text \notin DOMAIN embedding_cache
====
